---------------------------- MODULE Spec2Model ----------------------------
(***************************************************************************)
(* Model of the UniFi Site Manager integration's data-refresh coordinator  *)
(* (custom_components/ha_unifi_site_manager/__init__.py).                  *)
(*                                                                         *)
(* One refresh cycle is one run of _async_update_data.  The coroutine      *)
(* yields at every `await`, so the model has one action per awaited HTTP   *)
(* response: the action runs the code from that response up to the next    *)
(* request (or to the return / raise that ends the cycle).                 *)
(*                                                                         *)
(* Python values are modelled as follows.  A dict is a function with       *)
(* string keys (EmptyDict is {}), a list is a sequence, None and the JSON  *)
(* values that are not objects are tagged records carrying their Python    *)
(* truth value.  d.get(k, default) is Get(d, k, default).                  *)
(***************************************************************************)
EXTENDS Integers, Sequences, FiniteSets, TLC

(***************************************************************************)
(* Bounds of the model.                                                    *)
(***************************************************************************)
\* Refresh cycles run by the scheduler in one behaviour.
MaxCycles == 2
\* Requests answered with anything but the backend's nominal answer.
MaxFaults == 2
\* The same, in the first cycle of a behaviour whose later cycles are answered
\* as the first was.
MaxReplayFaults == 1
\* How many times the user step of a config flow is submitted, and how many
\* options flows are opened on the entry.
MaxAttempts == 2
MaxOptionsFlows == 2

(***************************************************************************)
(* Python values.                                                          *)
(***************************************************************************)
EmptyDict == [k \in {} |-> 0]
\* None, and JSON null.
None == [py |-> "NoneType", truthy |-> FALSE]
\* A JSON value that is not an object and is truthy in Python: [1], "x", 5.
JsonNonObject == [py |-> "list", truthy |-> TRUE]
\* A JSON value that is not an object and is falsy in Python: [], "", 0.
JsonEmptyNonObject == [py |-> "list", truthy |-> FALSE]

IsDict(v) == "py" \notin DOMAIN v

\* Python truth value of a dict or of one of the tagged values above.
Truthy(v) == IF IsDict(v) THEN DOMAIN v # {} ELSE v.truthy

\* Python truth value of a list.
ListTruthy(l) == Len(l) > 0

\* Python truth value of a value that is a dict or None.
ObjTruthy(d) == d # None /\ DOMAIN d # {}

Get(d, k, default) == IF k \in DOMAIN d THEN d[k] ELSE default

\* dict.update: the keys of u override those of d.
Update(d, u) == u @@ d

(***************************************************************************)
(* Endpoints (const.py) and the requests of a cycle.                       *)
(***************************************************************************)
API_SITES_ENDPOINT == "/ea/sites"
API_DEVICES_ENDPOINT == "/ea/devices"
API_HOSTS_ENDPOINT == "/ea/hosts"
API_SD_WAN_CONFIGS == "/ea/sd-wan-configs"
SdwanDetailPath == "/ea/sd-wan-configs/{config_id}"
SdwanStatusPath == "/ea/sd-wan-configs/{config_id}/status"
IspMetricsPath == "/ea/isp-metrics/5m"

\* A request: the path, the config or site id it is made for, the metric type.
Req(path, id, cat) == [path |-> path, id |-> id, cat |-> cat]
SitesReq == Req(API_SITES_ENDPOINT, "-", "-")
HostsReq == Req(API_HOSTS_ENDPOINT, "-", "-")
DevicesReq == Req(API_DEVICES_ENDPOINT, "-", "-")
SdwanReq == Req(API_SD_WAN_CONFIGS, "-", "-")
\* DetailReq built from something other than the id of the config.
DetailReqNotById(config_id) == Req(SdwanDetailPath, "hq", "-")

DetailReq(config_id) == Req(SdwanDetailPath, config_id, "-")
StatusReq(config_id) == Req(SdwanStatusPath, config_id, "-")
IspReq(metric_type, site_id) == Req(IspMetricsPath, site_id, metric_type)

\* The four metric types requested per site, in the order of the code, and
\* the keys of the per-site metrics dict they are stored under.
MetricTypes == <<"latency", "packet-loss", "bandwidth", "wan">>
MetricKeys == <<"latency", "packet_loss", "bandwidth", "wan">>

(***************************************************************************)
(* The backend: what the cloud API holds.  A nominal answer renders it.    *)
(***************************************************************************)
BackendSites ==
    << [siteId |-> "A", hostId |-> "H1"],
       [hostId |-> "H1"],
       [siteId |-> "B", hostId |-> "H2"] >>

BackendHosts ==
    << [id |-> "H1", reportedState |-> [hostname |-> "office"]],
       [id |-> "H2", reportedState |-> [hostname |-> "branch"]] >>

BackendDevices ==
    << [hostId |-> "H1",
        devices |-> << [id |-> "D1", mac |-> "aa:bb", name |-> "sw1", status |-> "online"],
                       [id |-> "D3", mac |-> "aa:cc", name |-> "ap2", status |-> "online"] >>],
       [hostId |-> "H2",
        devices |-> << [id |-> "D2", mac |-> "cc:dd", name |-> "ap1", status |-> "offline"],
                       [id |-> "D4", mac |-> "cc:ee", name |-> "gw1", status |-> "online"] >>] >>

BackendConfigs ==
    << [id |-> "c1", name |-> "hq"],
       [name |-> "draft"],
       [id |-> "c2", name |-> "lab"] >>

BackendDetail(config_id) ==
    IF config_id = "c1"
    THEN [id |-> "c1", name |-> "hq", type |-> "sdwan-hbsp",
          hubs |-> << [id |-> "h1", siteId |-> "A"] >>,
          spokes |-> << [id |-> "s1", siteId |-> "B"] >>]
    ELSE [id |-> config_id, name |-> "lab", type |-> "sdwan-hbsp",
          hubs |-> << >>, spokes |-> << >>]

BackendStatus(config_id) ==
    [id |-> config_id, generateStatus |-> "OK", hubs |-> << >>, spokes |-> << >>]

T1 == "2024-01-01T00:00:00Z"
T2 == "2024-01-01T00:05:00Z"
T3 == "2024-01-01T00:10:00Z"

\* Times as ISO-8601 strings of one format compare as strings the way they
\* compare as times: TimeOrder lists them in increasing order.
TimeOrder == << T1, T2, T3 >>

Wan(lat, loss) ==
    [avgLatency |-> lat, maxLatency |-> "40", download_kbps |-> 900000,
     upload_kbps |-> 90000, packetLoss |-> loss, ispName |-> "isp",
     ispAsn |-> "64500", uptime |-> "100", downtime |-> "0"]

BackendIsp ==
    << [siteId |-> "A", hostId |-> "H1", metricType |-> "5m",
        periods |-> << [metricTime |-> T1, data |-> [wan |-> Wan("10", 0)]],
                       [metricTime |-> T2, data |-> [wan |-> Wan("12", 1)]] >>],
       [siteId |-> "B", hostId |-> "H2", metricType |-> "5m",
        periods |-> << [metricTime |-> T1, data |-> [wan |-> Wan("20", 0)]],
                       [data |-> [wan |-> Wan("21", 0)]] >>],
       [siteId |-> "C", hostId |-> "H3", metricType |-> "5m",
        periods |-> << [metricTime |-> T3, data |-> [wan |-> Wan("30", 2)]] >>],
       [hostId |-> "H1", metricType |-> "5m",
        periods |-> << [metricTime |-> T3, data |-> [wan |-> Wan("40", 3)]] >>] >>

\* The payload under "data" of a nominal answer.
Payload(req) ==
    CASE req.path = API_SITES_ENDPOINT -> BackendSites
      [] req.path = API_HOSTS_ENDPOINT -> BackendHosts
      [] req.path = API_DEVICES_ENDPOINT -> BackendDevices
      [] req.path = API_SD_WAN_CONFIGS -> BackendConfigs
      [] req.path = SdwanDetailPath -> BackendDetail(req.id)
      [] req.path = SdwanStatusPath -> BackendStatus(req.id)
      [] req.path = IspMetricsPath -> BackendIsp

\* The payload of an answer that holds nothing: [] on a list endpoint, null
\* on a single-resource endpoint.
NoPayload(req) ==
    IF req.path \in {SdwanDetailPath, SdwanStatusPath} THEN None ELSE << >>


(***************************************************************************)
(* HTTP answers.  The environment answers each request with one of these   *)
(* kinds; "ok" is the nominal answer, every other kind is a fault.         *)
(***************************************************************************)
\* Kinds every endpoint can be answered with.
CommonKinds ==
    {"ok", "empty", "emptyobj", "badjson", "401", "404", "500", "neterr"}

\* The sites endpoint is also answered with payloads outside the response
\* shape contract: an object without a data key, null, a truthy non-object
\* and a falsy non-object.
SitesKinds == CommonKinds \cup {"nodata", "null", "nonobj", "emptynonobj"}

Kinds(req) == IF req.path = API_SITES_ENDPOINT THEN SitesKinds ELSE CommonKinds

\* The answer of kind `kind` to request `req`.  transport = FALSE: session.get
\* raised aiohttp.ClientError (connection error, timeout); json = FALSE: the
\* body does not decode, resp.json() raises.
HttpGet(req, kind) ==
    CASE kind = "ok" ->
           [transport |-> TRUE, status |-> 200, json |-> TRUE,
            body |-> [data |-> Payload(req)]]
      [] kind = "empty" ->
           [transport |-> TRUE, status |-> 200, json |-> TRUE,
            body |-> [data |-> NoPayload(req)]]
      [] kind = "emptyobj" ->
           [transport |-> TRUE, status |-> 200, json |-> TRUE, body |-> EmptyDict]
      [] kind = "nodata" ->
           [transport |-> TRUE, status |-> 200, json |-> TRUE,
            body |-> [meta |-> "x"]]
      [] kind = "null" ->
           [transport |-> TRUE, status |-> 200, json |-> TRUE, body |-> None]
      [] kind = "nonobj" ->
           [transport |-> TRUE, status |-> 200, json |-> TRUE, body |-> JsonNonObject]
      [] kind = "emptynonobj" ->
           [transport |-> TRUE, status |-> 200, json |-> TRUE,
            body |-> JsonEmptyNonObject]
      [] kind = "badjson" ->
           [transport |-> TRUE, status |-> 200, json |-> FALSE, body |-> None]
      [] kind = "401" ->
           [transport |-> TRUE, status |-> 401, json |-> FALSE, body |-> None]
      [] kind = "404" ->
           [transport |-> TRUE, status |-> 404, json |-> FALSE, body |-> None]
      [] kind = "500" ->
           [transport |-> TRUE, status |-> 500, json |-> FALSE, body |-> None]
      [] kind = "neterr" ->
           [transport |-> FALSE, status |-> 0, json |-> FALSE, body |-> None]

(***************************************************************************)
(* _fetch_data                                                             *)
(***************************************************************************)
\* Exception classes that are subclasses of aiohttp.ClientError.
ClientErrors == {"ClientError", "ClientResponseError", "ContentTypeError"}

\* FetchDataTry with every non-200 status handled the way 404 is.
FetchDataTryErrorsAsEmpty(resp) ==
    IF ~resp.transport THEN [raised |-> "none", value |-> EmptyDict]
    ELSE IF resp.status = 401
         THEN [raised |-> "ConfigEntryAuthFailed", value |-> None]
    ELSE IF resp.status # 200 THEN [raised |-> "none", value |-> EmptyDict]
    ELSE IF ~resp.json THEN [raised |-> "ContentTypeError", value |-> None]
    ELSE [raised |-> "none", value |-> resp.body]

\* FetchDataTry without the 404 case: raise_for_status() raises on 404.
FetchDataTry404Raises(resp) ==
    IF ~resp.transport THEN [raised |-> "ClientError", value |-> None]
    ELSE IF resp.status = 401
         THEN [raised |-> "ConfigEntryAuthFailed", value |-> None]
    ELSE IF resp.status # 200
         THEN [raised |-> "ClientResponseError", value |-> None]
    ELSE IF ~resp.json THEN [raised |-> "ContentTypeError", value |-> None]
    ELSE [raised |-> "none", value |-> resp.body]

\* The body of the try block: what it returns, or the exception it raises.
FetchDataTry(resp) ==
    IF ~resp.transport THEN [raised |-> "ClientError", value |-> None]
    ELSE IF resp.status = 401
         THEN [raised |-> "ConfigEntryAuthFailed", value |-> None]
    ELSE IF resp.status = 404 THEN [raised |-> "none", value |-> EmptyDict]
    ELSE IF resp.status # 200   \* raise_for_status()
         THEN [raised |-> "ClientResponseError", value |-> None]
    ELSE IF ~resp.json          \* resp.json()
         THEN [raised |-> "ContentTypeError", value |-> None]
    ELSE [raised |-> "none", value |-> resp.body]

\* The two except clauses: `except aiohttp.ClientError` and `except Exception`
\* both raise UpdateFailed; every exception of the try block is an Exception.
FetchDataExcept(r) ==
    IF r.raised = "none" THEN r
    ELSE IF r.raised \in ClientErrors THEN [raised |-> "UpdateFailed", value |-> None]
    ELSE [raised |-> "UpdateFailed", value |-> None]

FetchData(resp) == FetchDataExcept(FetchDataTry(resp))

(***************************************************************************)
(* _fetch_isp_metrics                                                      *)
(***************************************************************************)
\* timestamp_metrics of one period of one entry.
TimestampMetrics(entry, period) ==
    LET period_data == Get(period, "data", EmptyDict)
        wan_metrics == Get(period_data, "wan", EmptyDict)
    IN [metric_type |-> Get(entry, "metricType", None),
        host_id |-> Get(entry, "hostId", None),
        avg_latency |-> Get(wan_metrics, "avgLatency", None),
        max_latency |-> Get(wan_metrics, "maxLatency", None),
        download_kbps |-> Get(wan_metrics, "download_kbps", None),
        upload_kbps |-> Get(wan_metrics, "upload_kbps", None),
        packet_loss |-> Get(wan_metrics, "packetLoss", None),
        isp_name |-> Get(wan_metrics, "ispName", None),
        isp_asn |-> Get(wan_metrics, "ispAsn", None),
        uptime |-> Get(wan_metrics, "uptime", None),
        downtime |-> Get(wan_metrics, "downtime", None)]

\* site_metrics after the periods 1..n of one entry have been stored.
RECURSIVE StorePeriods(_, _, _, _)
StorePeriods(site_metrics, entry, periods, n) ==
    IF n = 0 THEN site_metrics
    ELSE LET before == StorePeriods(site_metrics, entry, periods, n - 1)
             period == periods[n]
             metric_time == Get(period, "metricTime", "")
         IN IF metric_time # ""
            THEN (metric_time :> TimestampMetrics(entry, period)) @@ before
            ELSE before

\* SiteMetrics without the comparison of the entry's siteId.
RECURSIVE SiteMetricsAnySite(_, _, _)
SiteMetricsAnySite(entries, site_id, n) ==
    IF n = 0 THEN EmptyDict
    ELSE LET before == SiteMetricsAnySite(entries, site_id, n - 1)
             entry == entries[n]
             periods == Get(entry, "periods", << >>)
         IN StorePeriods(before, entry, periods, Len(periods))

\* site_metrics after the entries 1..n of the series have been processed.
RECURSIVE SiteMetrics(_, _, _)
SiteMetrics(entries, site_id, n) ==
    IF n = 0 THEN EmptyDict
    ELSE LET before == SiteMetrics(entries, site_id, n - 1)
             entry == entries[n]
             periods == Get(entry, "periods", << >>)
         IN IF Get(entry, "siteId", "") = site_id
            THEN StorePeriods(before, entry, periods, Len(periods))
            ELSE before

\* The projection of one sample to the requested metric type.
FilterMetrics(metric_type, metrics) ==
    CASE metric_type = "latency" ->
           [avg_latency |-> metrics.avg_latency, max_latency |-> metrics.max_latency]
      [] metric_type = "packet-loss" -> [packet_loss |-> metrics.packet_loss]
      [] metric_type = "bandwidth" ->
           [download_kbps |-> metrics.download_kbps,
            upload_kbps |-> metrics.upload_kbps]
      [] metric_type = "wan" -> metrics

\* What _fetch_isp_metrics returns: every failure ends in `return {}`.
FetchIspMetrics(resp, metric_type, site_id) ==
    IF ~resp.transport THEN EmptyDict
    ELSE IF resp.status # 200 THEN EmptyDict
    ELSE IF ~resp.json THEN EmptyDict
    ELSE IF ~IsDict(resp.body) THEN EmptyDict
    ELSE LET entries == Get(resp.body, "data", << >>)
             site_metrics == SiteMetrics(entries, site_id, Len(entries))
         IN IF metric_type # "5m"
            THEN [t \in DOMAIN site_metrics |->
                    FilterMetrics(metric_type, site_metrics[t])]
            ELSE site_metrics

(***************************************************************************)
(* State.                                                                  *)
(***************************************************************************)
VARIABLES
    pc,                     \* where _async_update_data is: the await it is at
    data,                   \* coordinator.data: the snapshot consumers read
    last_update_success,    \* coordinator.last_update_success
    outcome,                \* how the last finished cycle ended
    sites_response,         \* locals of _async_update_data
    hosts_response,
    devices_response,
    sdwan_configs_response,
    sdwan_configs,
    sdwan_statuses,
    i,                      \* index of the config being processed
    config_id,
    isp_metrics,
    si,                     \* index of the site being processed
    k,                      \* index of the metric type being fetched
    metrics,                \* the metrics dict being built for that site
    requests,               \* the requests issued in this cycle, in order
    last,                   \* the request answered last and the kind of answer
    got404,                 \* the requests of this cycle answered with 404
    faults,                 \* answers so far that were not nominal
    cycles,                 \* cycles started so far
    replay,                 \* the answers of the first cycle, when later cycles repeat them
    sensor,                 \* the sensor platform: selected sites, entities added
    hass,                   \* the config entry and the device and entity registries
    flow                    \* the config flow or options flow in progress

coordVars == <<data, last_update_success, outcome>>
respVars == <<sites_response, hosts_response, devices_response>>
sdwanVars == <<sdwan_configs_response, sdwan_configs, sdwan_statuses, i, config_id>>
ispVars == <<isp_metrics, si, k, metrics>>
vars == <<pc, coordVars, respVars, sdwanVars, ispVars, requests, last, got404,
          faults, cycles, replay, sensor, hass, flow>>

NoReq == Req("-", "-", "-")

\* The coordinator after construction, before its first cycle.
InitCoordinator ==
    /\ pc = "idle"
    /\ data = None
    /\ last_update_success = TRUE
    /\ outcome = "none"
    /\ sites_response = None
    /\ hosts_response = None
    /\ devices_response = None
    /\ sdwan_configs_response = None
    /\ sdwan_configs = << >>
    /\ sdwan_statuses = EmptyDict
    /\ i = 0
    /\ config_id = ""
    /\ isp_metrics = EmptyDict
    /\ si = 0
    /\ k = 0
    /\ metrics = EmptyDict
    /\ requests = << >>
    /\ last = [req |-> NoReq, kind |-> "-"]
    /\ got404 = {}
    /\ faults = 0
    /\ cycles = 0

\* The record of the first cycle: its requests, the answers they got, its
\* outcome and the snapshot it left; `answers` are those of the current cycle.
NoReplay ==
    [on |-> FALSE, answers |-> << >>, prev_requests |-> << >>,
     prev_answers |-> << >>, prev_outcome |-> "none", prev_data |-> None]

\* The sensor platform before it is set up.
NoSensor ==
    [selected_sites |-> {}, added |-> FALSE, entities |-> << >>, attributes |-> None]

\* Home Assistant without a config entry of the integration: nothing in the
\* registries, no reload asked for.
NoHass ==
    [entry |-> None, reloads |-> 0, device_registry |-> {}, entity_registry |-> {}]

\* No flow in progress.
NoFlow ==
    [handler |-> "none", step |-> "none", api_key |-> "", sites |-> EmptyDict,
     errors |-> "", found |-> EmptyDict, answers |-> << >>, selected |-> {},
     attempts |-> 0, opened |-> 0]

\* The backend answers every request as it pleases.
Init ==
    /\ InitCoordinator
    /\ replay = NoReplay
    /\ sensor = NoSensor
    /\ hass = NoHass
    /\ flow = NoFlow

\* The backend answers the requests of every later cycle as it answered
\* those of the first.
InitReplay ==
    /\ InitCoordinator
    /\ replay = [NoReplay EXCEPT !.on = TRUE]
    /\ sensor = NoSensor
    /\ hass = NoHass
    /\ flow = NoFlow

(***************************************************************************)
(* The environment: the answer to the awaited request.                     *)
(***************************************************************************)
Awaited == requests[Len(requests)]

Answered(kind) ==
    /\ kind \in Kinds(Awaited)
    /\ IF replay.on /\ cycles > 1
       THEN /\ Len(replay.answers) < Len(replay.prev_answers)
            /\ kind = replay.prev_answers[Len(replay.answers) + 1]
            /\ faults' = faults
       ELSE /\ kind # "ok" => faults < (IF replay.on THEN MaxReplayFaults ELSE MaxFaults)
            /\ faults' = IF kind = "ok" THEN faults ELSE faults + 1
    /\ last' = [req |-> Awaited, kind |-> kind]
    /\ got404' = IF kind = "404" THEN got404 \cup {Awaited} ELSE got404
    /\ replay' = IF replay.on THEN [replay EXCEPT !.answers = Append(@, kind)]
                 ELSE replay
    /\ UNCHANGED <<sensor, hass, flow>>

Issue(req) == requests' = Append(requests, req)

(***************************************************************************)
(* How a cycle ends.                                                       *)
(***************************************************************************)
\* DataUpdateCoordinator's refresh around _async_update_data: the returned
\* snapshot replaces coordinator.data; an exception leaves it in place.
AsyncRefresh(exc, snapshot) ==
    /\ last_update_success' = (exc = "none")
    /\ data' = IF exc = "none" THEN snapshot ELSE data
    /\ outcome' = IF exc = "none" THEN "success" ELSE exc

\* _async_update_data without its outer handler: the exception escapes as it is.
AsyncUpdateDataExceptMissing(exc) == exc

\* `except Exception as err: raise UpdateFailed from err`
AsyncUpdateDataExcept(exc) == "UpdateFailed"

\* A return statement that is never reached: the cycle stays where it is.
ReturnNotReached(snapshot) ==
    /\ pc' = pc
    /\ UNCHANGED coordVars

Return(snapshot) ==
    /\ pc' = "done"
    /\ AsyncRefresh("none", snapshot)

Raise(exc) ==
    /\ pc' = "done"
    /\ AsyncRefresh(AsyncUpdateDataExcept(exc), None)

\* Snapshot built before the statuses and metrics of the cycle are in: the
\* two accumulating maps are left out.
SnapshotBeforeAccumulation(hosts, sites, devices, isp, configs, statuses) ==
    [data |-> Get(hosts, "data", << >>),
     sites |-> Get(sites, "data", << >>),
     devices |-> Get(devices, "data", << >>),
     isp_metrics |-> EmptyDict,
     sdwan_configs |-> configs,
     sdwan_statuses |-> EmptyDict]

\* Snapshot where the config list is kept across cycles: the configs of the
\* cycle are appended to those of the snapshot in place.
SnapshotAccumulatingConfigs(hosts, sites, devices, isp, configs, statuses) ==
    [data |-> Get(hosts, "data", << >>),
     sites |-> Get(sites, "data", << >>),
     devices |-> Get(devices, "data", << >>),
     isp_metrics |-> isp,
     sdwan_configs |-> Get(data, "sdwan_configs", << >>) \o configs,
     sdwan_statuses |-> statuses]

\* The dict built by the return statement.
Snapshot(hosts, sites, devices, isp, configs, statuses) ==
    [data |-> Get(hosts, "data", << >>),
     sites |-> Get(sites, "data", << >>),
     devices |-> Get(devices, "data", << >>),
     isp_metrics |-> isp,
     sdwan_configs |-> configs,
     sdwan_statuses |-> statuses]

(***************************************************************************)
(* _async_update_data, one action per awaited answer.                      *)
(***************************************************************************)
\* The scheduler starts a cycle: the locals are fresh, the sites request is
\* issued.
StartCycle ==
    /\ pc \in {"idle", "done"}
    /\ cycles < MaxCycles
    /\ cycles' = cycles + 1
    /\ pc' = "sites"
    /\ sites_response' = None
    /\ hosts_response' = None
    /\ devices_response' = None
    /\ sdwan_configs_response' = None
    /\ sdwan_configs' = << >>
    /\ sdwan_statuses' = EmptyDict
    /\ i' = 0
    /\ config_id' = ""
    /\ isp_metrics' = EmptyDict
    /\ si' = 0
    /\ k' = 0
    /\ metrics' = EmptyDict
    /\ requests' = << SitesReq >>
    /\ last' = [req |-> NoReq, kind |-> "-"]
    /\ got404' = {}
    /\ replay' = IF replay.on /\ cycles = 1
                 THEN [replay EXCEPT !.answers = << >>,
                                     !.prev_requests = requests,
                                     !.prev_answers = replay.answers,
                                     !.prev_outcome = outcome,
                                     !.prev_data = data]
                 ELSE [replay EXCEPT !.answers = << >>]
    /\ UNCHANGED <<coordVars, faults, sensor, hass, flow>>

\* sites_response = await self._fetch_data(session, API_SITES_ENDPOINT)
SitesResponse ==
    /\ pc = "sites"
    /\ \E kind \in SitesKinds :
        /\ Answered(kind)
        /\ LET r == FetchData(HttpGet(Awaited, kind))
           IN IF r.raised # "none"
              THEN /\ Raise(r.raised)
                   /\ UNCHANGED <<sites_response, requests>>
              ELSE IF ~Truthy(r.value)
              THEN /\ Return(EmptyDict)
                   /\ sites_response' = r.value
                   /\ UNCHANGED requests
              ELSE /\ sites_response' = r.value
                   /\ pc' = "hosts"
                   /\ Issue(HostsReq)
                   /\ UNCHANGED coordVars
    /\ UNCHANGED <<hosts_response, devices_response, sdwanVars, ispVars, cycles>>

\* hosts_response = await self._fetch_data(session, API_HOSTS_ENDPOINT)
HostsResponse ==
    /\ pc = "hosts"
    /\ \E kind \in CommonKinds :
        /\ Answered(kind)
        /\ LET r == FetchData(HttpGet(Awaited, kind))
           IN IF r.raised # "none"
              THEN /\ Raise(r.raised)
                   /\ UNCHANGED <<hosts_response, requests>>
              ELSE /\ hosts_response' =
                        IF ~Truthy(r.value) THEN [data |-> << >>] ELSE r.value
                   /\ pc' = "devices"
                   /\ Issue(DevicesReq)
                   /\ UNCHANGED coordVars
    /\ UNCHANGED <<sites_response, devices_response, sdwanVars, ispVars, cycles>>

\* devices_response = await self._fetch_data(session, API_DEVICES_ENDPOINT)
DevicesResponse ==
    /\ pc = "devices"
    /\ \E kind \in CommonKinds :
        /\ Answered(kind)
        /\ LET r == FetchData(HttpGet(Awaited, kind))
           IN IF r.raised # "none"
              THEN /\ Raise(r.raised)
                   /\ UNCHANGED <<devices_response, requests>>
              ELSE /\ devices_response' =
                        IF ~Truthy(r.value) THEN [data |-> << >>] ELSE r.value
                   /\ pc' = "sdwan"
                   /\ Issue(SdwanReq)
                   /\ UNCHANGED coordVars
    /\ UNCHANGED <<sites_response, hosts_response, sdwanVars, ispVars, cycles>>

\* NextConfig of a loop that goes through a config once more when a request
\* for it was answered 404.
NextConfigRetrying(configs, from) ==
    IF /\ from > 1
       /\ last'.kind = "404"
       /\ Cardinality({j \in DOMAIN requests : requests[j] = Awaited}) = 1
    THEN from - 1
    ELSE LET S == {j \in from..Len(configs) : Get(configs[j], "id", "") # ""}
         IN IF S = {} THEN 0 ELSE CHOOSE j \in S : \A j2 \in S : j <= j2

\* The index of the first config at or after `from` that has an id
\* (`if config_id:`), 0 when there is none.
NextConfig(configs, from) ==
    LET S == {j \in from..Len(configs) : Get(configs[j], "id", "") # ""}
    IN IF S = {} THEN 0 ELSE CHOOSE j \in S : \A j2 \in S : j <= j2

\* The for loop over sdwan_configs moves on to the config at or after `from`:
\* its detail request is issued, or the loop is over.
AdvanceConfig(configs, from) ==
    LET next == NextConfig(configs, from)
    IN IF next # 0
       THEN /\ pc' = "detail"
            /\ i' = next
            /\ config_id' = configs[next].id
            /\ Issue(DetailReq(configs[next].id))
       ELSE /\ pc' = "isp_loop"
            /\ UNCHANGED <<i, config_id, requests>>

\* `except Exception as err: sdwan_configs_response = None` around the
\* config-list fetch.
SdwanConfigsExcept(r) ==
    IF r.raised = "none" THEN r ELSE [raised |-> "none", value |-> None]

\* sdwan_configs_response = await self._fetch_data(session, API_SD_WAN_CONFIGS)
SdwanResponse ==
    /\ pc = "sdwan"
    /\ \E kind \in CommonKinds :
        /\ Answered(kind)
        /\ LET r == SdwanConfigsExcept(FetchData(HttpGet(Awaited, kind)))
               resp == r.value
           IN IF r.raised # "none"
              THEN /\ Raise(r.raised)
                   /\ UNCHANGED <<sdwan_configs_response, sdwan_configs, i,
                                  config_id, requests>>
              ELSE /\ sdwan_configs_response' = resp
                   /\ IF Truthy(resp) /\ ~IsDict(resp)
                      THEN /\ Raise("AttributeError")
                           /\ UNCHANGED <<sdwan_configs, i, config_id, requests>>
                      ELSE IF Truthy(resp) /\ ListTruthy(Get(resp, "data", << >>))
                      THEN /\ sdwan_configs' = resp.data
                           /\ AdvanceConfig(resp.data, 1)
                           /\ UNCHANGED coordVars
                      ELSE /\ pc' = "isp_loop"
                           /\ UNCHANGED <<sdwan_configs, i, config_id, requests,
                                          coordVars>>
    /\ UNCHANGED <<respVars, sdwan_statuses, ispVars, cycles>>

\* What the per-config try block is left with when a fetch inside it raised.
Caught == [py |-> "caught", truthy |-> FALSE]

\* The per-config block without its try/except: the exception propagates.
ConfigExceptMissing(r) == r

\* `except Exception as err:` of the per-config try block: the error is
\* logged and the for loop goes on with the next config.
ConfigExcept(r) ==
    IF r.raised = "none" THEN r ELSE [raised |-> "none", value |-> Caught]

\* config_detail = await self._fetch_data(session, config_detail_url), first
\* statement of the per-config try block.
DetailResponse ==
    /\ pc = "detail"
    /\ \E kind \in CommonKinds :
        /\ Answered(kind)
        /\ LET r == ConfigExcept(FetchData(HttpGet(Awaited, kind)))
           IN IF r.raised # "none"
              THEN /\ Raise(r.raised)
                   /\ UNCHANGED <<sdwan_configs, i, config_id, requests>>
              ELSE IF r.value = Caught
              THEN /\ AdvanceConfig(sdwan_configs, i + 1)
                   /\ UNCHANGED <<sdwan_configs, coordVars>>
              ELSE /\ sdwan_configs' =
                        IF Truthy(r.value) /\ ObjTruthy(Get(r.value, "data", None))
                        THEN [sdwan_configs EXCEPT ![i] = Update(@, r.value.data)]
                        ELSE sdwan_configs
                   /\ pc' = "status"
                   /\ Issue(StatusReq(config_id))
                   /\ UNCHANGED <<i, config_id, coordVars>>
    /\ UNCHANGED <<respVars, sdwan_configs_response, sdwan_statuses, ispVars, cycles>>

\* status_response = await self._fetch_data(session, status_url), in the same
\* try block.
StatusResponse ==
    /\ pc = "status"
    /\ \E kind \in CommonKinds :
        /\ Answered(kind)
        /\ LET r == ConfigExcept(FetchData(HttpGet(Awaited, kind)))
           IN IF r.raised # "none"
              THEN /\ Raise(r.raised)
                   /\ UNCHANGED <<sdwan_statuses, i, config_id, requests>>
              ELSE /\ sdwan_statuses' =
                        IF /\ r.value # Caught
                           /\ Truthy(r.value)
                           /\ ObjTruthy(Get(r.value, "data", None))
                        THEN (config_id :> r.value.data) @@ sdwan_statuses
                        ELSE sdwan_statuses
                   /\ AdvanceConfig(sdwan_configs, i + 1)
                   /\ UNCHANGED coordVars
    /\ UNCHANGED <<respVars, sdwan_configs_response, sdwan_configs, ispVars, cycles>>

\* The index of the first site at or after `from` that has a siteId
\* (`if site_id:`), 0 when there is none.
NextSite(sites, from) ==
    LET S == {j \in from..Len(sites) : Get(sites[j], "siteId", "") # ""}
    IN IF S = {} THEN 0 ELSE CHOOSE j \in S : \A j2 \in S : j <= j2

\* The for loop over the sites moves on to the site at or after `from` and
\* issues its first metrics request, or the loop is over and the snapshot
\* is returned with `isp` as its isp_metrics; `built` is the metrics dict
\* the local is left bound to.
AdvanceSite(sites, from, isp, built) ==
    LET next == NextSite(sites, from)
    IN IF next # 0
       THEN /\ pc' = "isp"
            /\ si' = next
            /\ k' = 1
            /\ metrics' = EmptyDict
            /\ Issue(IspReq(MetricTypes[1], sites[next].siteId))
            /\ UNCHANGED coordVars
       ELSE /\ Return(Snapshot(hosts_response, sites_response, devices_response,
                               isp, sdwan_configs, sdwan_statuses))
            /\ metrics' = built
            /\ UNCHANGED <<si, k, requests>>

\* `for site in sites_response.get("data", [])`: the SD-WAN part is over.
IspLoop ==
    /\ pc = "isp_loop"
    /\ IF ~IsDict(sites_response)
       THEN /\ Raise("AttributeError")
            /\ UNCHANGED <<si, k, metrics, requests>>
       ELSE AdvanceSite(Get(sites_response, "data", << >>), 1, isp_metrics, metrics)
    /\ UNCHANGED <<respVars, sdwanVars, isp_metrics, last, got404, faults, cycles,
                   replay, sensor, hass, flow>>

\* StoreMetric where a failed fetch (an empty result) takes the categories
\* fetched before it with it.
StoreMetricDropsOnFailure(dict, key, value) ==
    IF value = EmptyDict THEN (key :> value) ELSE (key :> value) @@ dict

\* metrics[key] of the dict literal, once the awaited call has returned.
StoreMetric(dict, key, value) == (key :> value) @@ dict

\* await self._fetch_isp_metrics(session, metric_type, site_id), one of the
\* four of the dict literal; after the fourth, isp_metrics[site_id] = metrics.
IspResponse ==
    /\ pc = "isp"
    /\ \E kind \in CommonKinds :
        /\ Answered(kind)
        /\ LET site_id == Awaited.id
               value == FetchIspMetrics(HttpGet(Awaited, kind), MetricTypes[k], site_id)
               built == StoreMetric(metrics, MetricKeys[k], value)
           IN IF k < Len(MetricTypes)
              THEN /\ metrics' = built
                   /\ k' = k + 1
                   /\ Issue(IspReq(MetricTypes[k + 1], site_id))
                   /\ UNCHANGED <<pc, si, isp_metrics, coordVars>>
              ELSE /\ isp_metrics' = (site_id :> built) @@ isp_metrics
                   /\ AdvanceSite(Get(sites_response, "data", << >>), si + 1,
                                  (site_id :> built) @@ isp_metrics, built)
    /\ UNCHANGED <<respVars, sdwanVars, cycles>>

Next ==
    \/ StartCycle
    \/ SitesResponse
    \/ HostsResponse
    \/ DevicesResponse
    \/ SdwanResponse
    \/ DetailResponse
    \/ StatusResponse
    \/ IspLoop
    \/ IspResponse

Spec == Init /\ [][Next]_vars

\* The same coordinator, with a backend that repeats itself.
SpecReplay == InitReplay /\ [][Next]_vars

(***************************************************************************)
(* Vocabulary of the properties.                                           *)
(***************************************************************************)
Range(seq) == {seq[j] : j \in DOMAIN seq}

\* This step processed the answer to a request.
AnswerStep == last' # last /\ last'.req # NoReq

\* Answers that make _fetch_data raise: a transport failure or a non-2xx
\* status other than 401 and 404.
TransportFailures == {"500", "neterr"}

\* The cycle has ended by raising.
CycleFailed == pc = "done" /\ outcome # "success"

\* The metrics-dict key a metric type is stored under.
KeyOf(metric_type) ==
    MetricKeys[CHOOSE j \in DOMAIN MetricTypes : MetricTypes[j] = metric_type]

(***************************************************************************)
(* C1.  A 401 answer to the sites request ends the cycle with the fatal    *)
(* authentication-failed condition (ConfigEntryAuthFailed), never with     *)
(* UpdateFailed.  The code raises ConfigEntryAuthFailed inside the try     *)
(* block of _fetch_data, whose `except Exception` turns it into            *)
(* UpdateFailed: TLC finds this statement violated.                        *)
(***************************************************************************)
C1_Sites401IsAuthFailed ==
    (last.req = SitesReq /\ last.kind = "401")
        => (pc = "done" /\ outcome = "ConfigEntryAuthFailed")

(***************************************************************************)
(* C2.  A 401 answer to any request of a cycle aborts the cycle at once    *)
(* with ConfigEntryAuthFailed: the answered request is the last one        *)
(* issued and coordinator.data is not replaced.  Violated: a 401 on the    *)
(* sites, hosts or devices request ends in UpdateFailed, and a 401 on an   *)
(* SD-WAN or ISP-metrics request is swallowed and the cycle goes on.       *)
(***************************************************************************)
C2_Any401AbortsWithAuthFailed ==
    \A req \in Range(requests) :
        (last.req = req /\ last.kind = "401")
            => /\ pc = "done"
               /\ outcome = "ConfigEntryAuthFailed"
               /\ ~last_update_success
               /\ requests[Len(requests)] = req

(***************************************************************************)
(* C3.  When the sites request fails with a transport error or a non-2xx   *)
(* status other than 401 and 404, the step that processes the answer ends  *)
(* the cycle with UpdateFailed, issues no further request, and leaves      *)
(* coordinator.data what it was before the cycle.                          *)
(***************************************************************************)
C3_SitesFailureKeepsSnapshot ==
    [][ (AnswerStep /\ last'.req = SitesReq /\ last'.kind \in TransportFailures)
          => /\ pc' = "done"
             /\ outcome' = "UpdateFailed"
             /\ ~last_update_success'
             /\ requests' = << SitesReq >>
             /\ data' = data ]_vars

\* A second cycle fails on the sites request after a first one published a
\* non-empty snapshot.
C3_Witness ==
    /\ pc = "done"
    /\ last.req = SitesReq
    /\ last.kind \in TransportFailures
    /\ outcome = "UpdateFailed"
    /\ IsDict(data)
    /\ "sites" \in DOMAIN data

(***************************************************************************)
(* C4.  When the sites request succeeded and the hosts (or devices)        *)
(* request fails with a transport error or a non-2xx status other than     *)
(* 401, the cycle goes on with an empty host (device) list and does not    *)
(* end by raising.  Violated: _fetch_data raises UpdateFailed, nothing     *)
(* around the hosts and devices fetches catches it, and the cycle aborts.  *)
(***************************************************************************)
C4_HostsDevicesFailureTolerated ==
    (last.req \in {HostsReq, DevicesReq} /\ last.kind \in TransportFailures)
        => /\ ~CycleFailed
           /\ last.req = HostsReq => hosts_response = [data |-> << >>]
           /\ last.req = DevicesReq => devices_response = [data |-> << >>]

(***************************************************************************)
(* C5.  When the SD-WAN config-list request fails or returns no configs,   *)
(* no detail or status request is issued, the cycle goes on to the         *)
(* ISP-metrics stage with sdwan_configs = [] and sdwan_statuses = {}, and  *)
(* ends successfully with both in the snapshot.  Violated: when the sites  *)
(* payload of the cycle is a truthy JSON value that is not an object (the  *)
(* case of C9), the cycle passes the SD-WAN stage as stated and then       *)
(* fails at `sites_response.get` of the ISP-metrics loop (AttributeError,  *)
(* hence UpdateFailed).                                                    *)
(***************************************************************************)
\* The config-list request of this cycle has been answered.
SdwanAnswered == SdwanReq \in Range(requests) /\ pc # "sdwan"

\* The answer failed (the local is None) or held no configs.
NoConfigsReturned ==
    \/ ~Truthy(sdwan_configs_response)
    \/ ~ListTruthy(Get(sdwan_configs_response, "data", << >>))

NoConfigRequests ==
    \A req \in Range(requests) : req.path \notin {SdwanDetailPath, SdwanStatusPath}

C5_NoConfigsEndsSuccessfully ==
    (SdwanAnswered /\ NoConfigsReturned)
        => /\ NoConfigRequests
           /\ sdwan_configs = << >>
           /\ sdwan_statuses = EmptyDict
           /\ pc \in {"isp_loop", "isp", "done"}
           /\ pc = "done"
                => /\ outcome = "success"
                   /\ data.sdwan_configs = << >>
                   /\ data.sdwan_statuses = EmptyDict

(***************************************************************************)
(* C6.  A failed ISP-metrics request (transport error, non-200 status,     *)
(* undecodable body) empties only the slot of its site and category: the   *)
(* categories already fetched for the site and the entries of the other    *)
(* sites are kept as they were, a nominal answer fills its slot with the   *)
(* samples of its site, and a cycle that issued a metrics request ends     *)
(* successfully with the accumulated metrics in the snapshot.              *)
(***************************************************************************)
IspFailures == {"neterr", "500", "401", "404", "badjson"}

\* The samples the backend holds for a site.
BackendTimes(site_id) == IF site_id = "A" THEN {T1, T2} ELSE {T1}

C6_IspFailureIsLocal ==
    [][ (AnswerStep /\ last'.req.path = IspMetricsPath)
          => LET site_id == last'.req.id
                 key == KeyOf(last'.req.cat)
                 slots == IF k < Len(MetricTypes) THEN metrics'
                          ELSE isp_metrics'[site_id]
             IN /\ DOMAIN slots = DOMAIN metrics \cup {key}
                /\ \A other \in DOMAIN metrics : slots[other] = metrics[other]
                /\ \A s \in DOMAIN isp_metrics \ {site_id} :
                       /\ s \in DOMAIN isp_metrics'
                       /\ isp_metrics'[s] = isp_metrics[s]
                /\ last'.kind \in IspFailures => slots[key] = EmptyDict
                /\ last'.kind = "ok" => DOMAIN slots[key] = BackendTimes(site_id)
                /\ pc' \in {"isp", "done"}
                /\ pc' = "done"
                     => /\ outcome' = "success"
                        /\ data'.isp_metrics = isp_metrics' ]_vars

\* While the metrics of site B are fetched: its packet-loss request has just
\* failed, its latency slot and the entry of site A hold samples.
C6_Witness ==
    /\ pc = "isp"
    /\ last.req = IspReq("packet-loss", "B")
    /\ last.kind \in IspFailures
    /\ metrics.packet_loss = EmptyDict
    /\ metrics.latency # EmptyDict
    /\ "A" \in DOMAIN isp_metrics
    /\ isp_metrics["A"].wan # EmptyDict

(***************************************************************************)
(* C7.  A failed detail or status request of one config does not end the   *)
(* cycle: the loop goes on with the next config that has an id (its        *)
(* detail request is issued) or leaves for the ISP-metrics stage; the      *)
(* configs and the statuses recorded so far are kept, the failing config   *)
(* included; and nominal answers are recorded (detail merged, status       *)
(* stored) whatever happened to the configs before.                        *)
(***************************************************************************)
ConfigFailures == {"neterr", "500", "badjson"}

C7_ConfigFailureIsLocal ==
    [][ (AnswerStep /\ last'.req.path \in {SdwanDetailPath, SdwanStatusPath})
          => LET next == NextConfig(sdwan_configs, i + 1)
             IN /\ pc' \in {"detail", "status", "isp_loop"}
                /\ Len(sdwan_configs') = Len(sdwan_configs)
                /\ \A j \in DOMAIN sdwan_configs :
                       /\ Get(sdwan_configs'[j], "id", "") = Get(sdwan_configs[j], "id", "")
                       /\ j # i => sdwan_configs'[j] = sdwan_configs[j]
                /\ \A c \in DOMAIN sdwan_statuses :
                       /\ c \in DOMAIN sdwan_statuses'
                       /\ sdwan_statuses'[c] = sdwan_statuses[c]
                /\ last'.kind \in ConfigFailures
                     => /\ sdwan_configs' = sdwan_configs
                        /\ sdwan_statuses' = sdwan_statuses
                        /\ IF next # 0
                           THEN /\ pc' = "detail"
                                /\ requests' =
                                     Append(requests, DetailReq(sdwan_configs[next].id))
                           ELSE pc' = "isp_loop"
                /\ (last'.kind = "ok" /\ last'.req.path = SdwanDetailPath)
                     => /\ "hubs" \in DOMAIN sdwan_configs'[i]
                        /\ requests' = Append(requests, StatusReq(last'.req.id))
                /\ (last'.kind = "ok" /\ last'.req.path = SdwanStatusPath)
                     => /\ last'.req.id \in DOMAIN sdwan_statuses'
                        /\ sdwan_statuses'[last'.req.id].generateStatus = "OK" ]_vars

\* The detail request of c1 failed; c2 was still processed, its detail
\* merged and its status recorded, and c1 is still in the list.
C7_Witness ==
    /\ pc = "isp_loop"
    /\ DetailReq("c1") \in Range(requests)
    /\ StatusReq("c1") \notin Range(requests)
    /\ Len(sdwan_configs) = 3
    /\ sdwan_configs[1] = [id |-> "c1", name |-> "hq"]
    /\ "hubs" \in DOMAIN sdwan_configs[3]
    /\ "c2" \in DOMAIN sdwan_statuses

(***************************************************************************)
(* C8.  The detail fetch and the status fetch of one config are            *)
(* independent: when the detail request of a config fails, its status      *)
(* request is still issued, and a failed status request leaves the merged  *)
(* detail in place.  Violated: both fetches sit in one try block, so a     *)
(* detail fetch that raises skips the status fetch of that config.         *)
(***************************************************************************)
C8_StatusFetchedAfterDetailFailure ==
    [][ /\ (AnswerStep /\ last'.req.path = SdwanDetailPath
                       /\ last'.kind \in ConfigFailures)
             => /\ pc' = "status"
                /\ requests' = Append(requests, StatusReq(last'.req.id))
        /\ (AnswerStep /\ last'.req.path = SdwanStatusPath
                       /\ last'.kind \in ConfigFailures)
             => sdwan_configs' = sdwan_configs ]_vars

(***************************************************************************)
(* C9.  When the sites request returns HTTP 200 with an empty or           *)
(* malformed payload (empty object, object without a data key, a JSON      *)
(* value that is not an object, a body that is not valid JSON), the cycle  *)
(* ends successfully with the empty snapshot.  Violated: only a falsy      *)
(* payload ({}, null, []) takes the `return {}` of the code.  A body that  *)
(* is not valid JSON makes resp.json() raise inside _fetch_data            *)
(* (UpdateFailed); a truthy non-object passes `if not sites_response` and  *)
(* fails later at `sites_response.get` (AttributeError, UpdateFailed); an  *)
(* object without a data key lets the cycle go on to a snapshot that has   *)
(* no sites but is not the empty one.                                      *)
(***************************************************************************)
\* A sites payload that is an object without a data key.
SitesWithoutData ==
    /\ IsDict(sites_response)
    /\ sites_response # EmptyDict
    /\ "data" \notin DOMAIN sites_response

\* The sites request of the cycle was answered with one of the payloads of
\* the claim.  An answer that ends the cycle is still the last answer; one
\* that does not is recognised by the local it was bound to.
SitesPayloadMalformed ==
    \/ /\ last.req = SitesReq
       /\ last.kind \in {"emptyobj", "nodata", "null", "nonobj", "emptynonobj",
                         "badjson"}
    \/ /\ pc \notin {"idle", "sites"}
       /\ sites_response = JsonNonObject \/ SitesWithoutData

C9_MalformedSitesIsEmptySnapshot ==
    (pc = "done" /\ SitesPayloadMalformed)
        => (outcome = "success" /\ data = EmptyDict)

(***************************************************************************)
(* C10.  A 404 answer to a request of the cycle is no data: the step that  *)
(* processes it does not end the cycle by raising, and in the snapshot of  *)
(* a cycle that ends successfully the collection fed by that request is    *)
(* empty (no sites, hosts, devices or configs; no merged detail and no     *)
(* status for the config; an empty metrics slot).                          *)
(***************************************************************************)
EmptyIn(req, snap) ==
    CASE req.path = API_SITES_ENDPOINT -> Get(snap, "sites", << >>) = << >>
      [] req.path = API_HOSTS_ENDPOINT -> Get(snap, "data", << >>) = << >>
      [] req.path = API_DEVICES_ENDPOINT -> Get(snap, "devices", << >>) = << >>
      [] req.path = API_SD_WAN_CONFIGS ->
           /\ Get(snap, "sdwan_configs", << >>) = << >>
           /\ Get(snap, "sdwan_statuses", EmptyDict) = EmptyDict
      [] req.path = SdwanDetailPath ->
           \A j \in DOMAIN snap.sdwan_configs :
               Get(snap.sdwan_configs[j], "id", "") = req.id
                   => DOMAIN snap.sdwan_configs[j] = {"id", "name"}
      [] req.path = SdwanStatusPath -> req.id \notin DOMAIN snap.sdwan_statuses
      [] req.path = IspMetricsPath ->
           snap.isp_metrics[req.id][KeyOf(req.cat)] = EmptyDict

C10_NotFoundIsNoData ==
    [][ /\ (AnswerStep /\ last'.kind = "404")
             => /\ last'.req \in got404'
                /\ ~(pc' = "done" /\ outcome' # "success")
        /\ (pc' = "done" /\ outcome' = "success")
             => \A req \in got404' : EmptyIn(req, data') ]_vars

\* A successful cycle in which the hosts request and a metrics request were
\* answered with 404.
C10_Witness ==
    /\ pc = "done"
    /\ outcome = "success"
    /\ HostsReq \in got404
    /\ \E req \in got404 : req.path = IspMetricsPath
    /\ data.data = << >>
    /\ data.sites # << >>

(***************************************************************************)
(* C11.  A cycle ends in exactly one of three ways: it returns a snapshot  *)
(* that holds every collection (hosts under "data", sites, devices,        *)
(* isp_metrics, sdwan_configs, sdwan_statuses), it raises UpdateFailed, or *)
(* it raises ConfigEntryAuthFailed; no other exception escapes.            *)
(***************************************************************************)
SnapshotKeys ==
    {"data", "sites", "devices", "isp_metrics", "sdwan_configs", "sdwan_statuses"}

\* The statement as claimed: violated by the `return {}` taken when the
\* sites payload is falsy, which returns a dict holding no collection.
C11_ThreeOutcomesFullSnapshot ==
    pc = "done"
        => \/ /\ outcome = "success"
              /\ last_update_success
              /\ DOMAIN data = SnapshotKeys
           \/ /\ outcome \in {"UpdateFailed", "ConfigEntryAuthFailed"}
              /\ ~last_update_success

\* C11 as amended: the snapshot returned is either the empty dict {} (falsy
\* sites payload) or holds every collection.
C11_ThreeOutcomes ==
    pc = "done"
        => \/ /\ outcome = "success"
              /\ last_update_success
              /\ data = EmptyDict \/ DOMAIN data = SnapshotKeys
           \/ /\ outcome \in {"UpdateFailed", "ConfigEntryAuthFailed"}
              /\ ~last_update_success

\* A cycle has ended by an AttributeError raised in the ISP-metrics loop,
\* after an earlier cycle returned a full snapshot.
C11_Witness ==
    /\ pc = "done"
    /\ sites_response = JsonNonObject
    /\ IspReq("latency", "A") \notin Range(requests)
    /\ SdwanReq \in Range(requests)
    /\ outcome = "UpdateFailed"
    /\ DOMAIN data = SnapshotKeys

(***************************************************************************)
(* C12.  coordinator.data is replaced only by the step that ends a cycle   *)
(* successfully, and then by the complete snapshot of that cycle: {} or    *)
(* the dict holding everything the cycle accumulated.  While a cycle runs, *)
(* and after one that raised, readers see the snapshot of the last         *)
(* successful cycle.                                                       *)
(***************************************************************************)
\* The snapshot holds what the locals of the finished cycle hold.
CompleteSnapshot(snap) ==
    /\ DOMAIN snap = SnapshotKeys
    /\ snap.data = hosts_response.data
    /\ snap.sites = Get(sites_response, "data", << >>)
    /\ snap.devices = devices_response.data
    /\ snap.isp_metrics = isp_metrics
    /\ snap.sdwan_configs = sdwan_configs
    /\ snap.sdwan_statuses = sdwan_statuses

C12_SnapshotPublishedWhole ==
    [][ /\ data' # data => (pc' = "done" /\ outcome' = "success")
        /\ (pc' = "done" /\ pc # "done" /\ outcome' = "success")
             => \/ data' = EmptyDict /\ requests' = << SitesReq >>
                \/ CompleteSnapshot(data)' ]_vars

\* The second cycle is fetching metrics: its locals already differ from the
\* published snapshot, which is still the one of the first cycle.
C12_Witness ==
    /\ pc = "isp"
    /\ cycles = 2
    /\ DOMAIN data = SnapshotKeys
    /\ data.sdwan_statuses # sdwan_statuses
    /\ isp_metrics # EmptyDict
    /\ data.isp_metrics # isp_metrics

(***************************************************************************)
(* C13.  The requests of a cycle respect the dependency order: the sites   *)
(* request is the first and nothing else is issued before it is answered;  *)
(* a detail or status request is issued only after the config list has     *)
(* been received, and only for an id of that list; a metrics request is    *)
(* issued only for a siteId of the sites response of the cycle.            *)
(***************************************************************************)
IdsOf(list, key) ==
    {Get(list[j], key, "") : j \in DOMAIN list} \ {""}

C13_DependencyOrder ==
    /\ pc \notin {"idle"} => requests[1] = SitesReq
    /\ pc = "sites" => requests = << SitesReq >>
    /\ \A j \in DOMAIN requests :
        LET req == requests[j]
        IN /\ j > 1 => (req # SitesReq /\ Truthy(sites_response))
           /\ req.path \in {SdwanDetailPath, SdwanStatusPath}
                => /\ \E j2 \in 1..(j - 1) : requests[j2] = SdwanReq
                   /\ IsDict(sdwan_configs_response)
                   /\ req.id \in IdsOf(Get(sdwan_configs_response, "data", << >>), "id")
           /\ req.path = SdwanStatusPath
                => \E j2 \in 1..(j - 1) : requests[j2] = DetailReq(req.id)
           /\ req.path = IspMetricsPath
                => /\ \E j2 \in 1..(j - 1) : requests[j2] = SdwanReq
                   /\ IsDict(sites_response)
                   /\ req.id \in IdsOf(Get(sites_response, "data", << >>), "siteId")

\* Detail and status of c2 were requested and the metrics of site B are
\* being fetched.
C13_Witness ==
    /\ pc = "isp"
    /\ StatusReq("c2") \in Range(requests)
    /\ requests[Len(requests)] = IspReq("wan", "B")

(***************************************************************************)
(* The consumers of the snapshot (sensor.py) and the superseded            *)
(* coordinator (ha-unifi-site-manager/__init__.py), as functions of the    *)
(* snapshot they read.                                                     *)
(***************************************************************************)
\* all_devices of the superseded coordinator: the devices of every host
\* group, each tagged with the hostId of its group.
RECURSIVE LegacyAllDevices(_, _)
LegacyAllDevices(groups, n) ==
    IF n = 0 THEN << >>
    ELSE LET host_data == groups[n]
             before == LegacyAllDevices(groups, n - 1)
         IN IF "devices" \in DOMAIN host_data
            THEN before \o [j \in DOMAIN host_data.devices |->
                              ("hostId" :> Get(host_data, "hostId", "")) @@ host_data.devices[j]]
            ELSE before

\* host_devices of sensor setup where the hostId of the group is not compared.
RECURSIVE HostDevicesAnyHost(_, _, _)
HostDevicesAnyHost(groups, host_id, n) ==
    IF n = 0 THEN << >>
    ELSE LET host_data == groups[n]
             before == HostDevicesAnyHost(groups, host_id, n - 1)
         IN IF "devices" \in DOMAIN host_data
            THEN before \o host_data.devices
            ELSE before

\* host_devices of sensor setup: the devices of the groups 1..n whose hostId
\* is host_id.
RECURSIVE HostDevices(_, _, _)
HostDevices(groups, host_id, n) ==
    IF n = 0 THEN << >>
    ELSE LET host_data == groups[n]
             before == HostDevices(groups, host_id, n - 1)
         IN IF Get(host_data, "hostId", "") = host_id /\ "devices" \in DOMAIN host_data
            THEN before \o host_data.devices
            ELSE before

(***************************************************************************)
(* C14.  For a devices response of N host groups of M device records, the  *)
(* device collection of the snapshot is flat, has N x M entries, and each  *)
(* entry carries the host identifier of its group.                         *)
(***************************************************************************)
\* The devices request of the finished cycle was answered with the backend's
\* N groups of M devices, and the cycle returned a snapshot.
DevicesReturned ==
    /\ pc = "done"
    /\ outcome = "success"
    /\ DOMAIN data = SnapshotKeys
    /\ devices_response = [data |-> BackendDevices]

GroupCount == Len(BackendDevices)

GroupSize == Len(BackendDevices[1].devices)

\* The statement as claimed: violated, the coordinator returns the host
\* groups as received.
C14_DevicesFlattened ==
    DevicesReturned
        => /\ Len(data.devices) = GroupCount * GroupSize
           /\ \A j \in DOMAIN data.devices :
                /\ "devices" \notin DOMAIN data.devices[j]
                /\ "mac" \in DOMAIN data.devices[j]
                /\ "hostId" \in DOMAIN data.devices[j]

\* C14 as amended: the device collection of the snapshot is the list of the
\* N host groups as received, each with its hostId and its M records;
\* sensor setup collects the M records of a host from the groups of that
\* host, and the flat list of N x M tagged records is what the superseded
\* coordinator builds from the same response.
C14_DevicesKeptNested ==
    DevicesReturned
        => /\ data.devices = BackendDevices
           /\ Len(data.devices) = GroupCount
           /\ \A j \in DOMAIN data.devices :
                /\ "hostId" \in DOMAIN data.devices[j]
                /\ Len(data.devices[j].devices) = GroupSize
                /\ HostDevices(data.devices, data.devices[j].hostId, Len(data.devices))
                     = data.devices[j].devices
           /\ LET all_devices == LegacyAllDevices(data.devices, Len(data.devices))
              IN /\ Len(all_devices) = GroupCount * GroupSize
                 /\ \A j \in DOMAIN all_devices :
                      \E g \in DOMAIN data.devices :
                          /\ all_devices[j].hostId = data.devices[g].hostId
                          /\ \E d \in DOMAIN data.devices[g].devices :
                                 all_devices[j].mac = data.devices[g].devices[d].mac

C14_Witness ==
    /\ DevicesReturned
    /\ Len(data.devices) = 2
    /\ Len(data.devices[2].devices) = 2
    /\ data.devices[2].hostId = "H2"

(***************************************************************************)
(* C15.  _fetch_isp_metrics returns, for the requested site, a map whose   *)
(* keys are exactly the metricTime values of the periods of the entries    *)
(* of that site, no period of another site, and whose values are the       *)
(* projection of the requested category: latency to avg_latency and        *)
(* max_latency, packet-loss to packet_loss, bandwidth to download_kbps and *)
(* upload_kbps, wan to every field.                                        *)
(***************************************************************************)
\* The periods of the raw series that belong to a site and carry a time,
\* as pairs of entry index and period index.
PeriodsOf(series, site_id) ==
    UNION {{<<e, q>> : q \in {q \in DOMAIN series[e].periods :
                                 "metricTime" \in DOMAIN series[e].periods[q]}} :
           e \in {e \in DOMAIN series : Get(series[e], "siteId", "") = site_id}}

ProjectedFields(metric_type) ==
    CASE metric_type = "latency" -> {"avg_latency", "max_latency"}
      [] metric_type = "packet-loss" -> {"packet_loss"}
      [] metric_type = "bandwidth" -> {"download_kbps", "upload_kbps"}
      [] metric_type = "wan" ->
           {"metric_type", "host_id", "avg_latency", "max_latency", "download_kbps",
            "upload_kbps", "packet_loss", "isp_name", "isp_asn", "uptime", "downtime"}

\* The raw field of the wan block a field of a sample is read from.
RawField(field) ==
    CASE field = "avg_latency" -> "avgLatency"
      [] field = "max_latency" -> "maxLatency"
      [] field = "packet_loss" -> "packetLoss"
      [] field = "isp_name" -> "ispName"
      [] field = "isp_asn" -> "ispAsn"
      [] OTHER -> field

C15_ExtractionBySiteAndCategory ==
    [][ (AnswerStep /\ last'.req.path = IspMetricsPath /\ last'.kind = "ok")
          => LET site_id == last'.req.id
                 metric_type == last'.req.cat
                 slots == IF k < Len(MetricTypes) THEN metrics'
                          ELSE isp_metrics'[site_id]
                 result == slots[KeyOf(metric_type)]
                 mine == PeriodsOf(BackendIsp, site_id)
             IN /\ DOMAIN result =
                     {BackendIsp[p[1]].periods[p[2]].metricTime : p \in mine}
                /\ \A p \in mine :
                     LET entry == BackendIsp[p[1]]
                         period == entry.periods[p[2]]
                         sample == result[period.metricTime]
                     IN /\ DOMAIN sample = ProjectedFields(metric_type)
                        /\ \A f \in DOMAIN sample \ {"metric_type", "host_id"} :
                               sample[f] = period.data.wan[RawField(f)]
                        /\ metric_type = "wan"
                             => /\ sample.host_id = entry.hostId
                                /\ sample.metric_type = entry.metricType ]_vars

\* The latency of site B has been extracted from a series that also holds
\* periods of A and C, a period of B without a time and an entry without a
\* site: one sample, at T1.
C15_Witness ==
    /\ pc = "isp"
    /\ last = [req |-> IspReq("latency", "B"), kind |-> "ok"]
    /\ DOMAIN metrics = {"latency"}
    /\ DOMAIN metrics.latency = {T1}
    /\ metrics.latency[T1] = [avg_latency |-> "20", max_latency |-> "40"]

(***************************************************************************)
(* UniFiISPMetricsDevice.extra_state_attributes (sensor.py).               *)
(***************************************************************************)
\* max(type_metrics.keys()): the greatest of a non-empty set of times.
MaxKey(times) ==
    LET idx(t) == CHOOSE j \in DOMAIN TimeOrder : TimeOrder[j] = t
    IN CHOOSE t \in times : \A u \in times : idx(u) <= idx(t)

\* get_latest_metrics: the sample stored under the greatest time of the
\* category, {} when the site has nothing under that key.
GetLatestMetrics(site_specific_metrics, metric_type) ==
    LET type_metrics == Get(site_specific_metrics, metric_type, EmptyDict)
    IN IF DOMAIN type_metrics = {} THEN EmptyDict
       ELSE type_metrics[MaxKey(DOMAIN type_metrics)]

\* `v is None`, for a value that may be a number, a string or None.
IsNone(v) == ToString(v) = ToString(None)

\* The attributes of the ISP-metrics entity of a site, read from snapshot
\* `snap`, or the TypeError of the division of None by 1000.  A packet loss
\* of None is reported as 0.
ExtraStateAttributes(snap, site_id) ==
    LET site_metrics == IF Truthy(snap) THEN Get(snap, "isp_metrics", EmptyDict)
                        ELSE EmptyDict
        site_specific_metrics == Get(site_metrics, site_id, EmptyDict)
        latency_metrics == GetLatestMetrics(site_specific_metrics, "latency")
        packet_loss_metrics == GetLatestMetrics(site_specific_metrics, "packet-loss")
        bandwidth_metrics == GetLatestMetrics(site_specific_metrics, "bandwidth")
        wan_metrics == GetLatestMetrics(site_specific_metrics, "wan")
        packet_loss_value == Get(packet_loss_metrics, "packet_loss", None)
        download_kbps == Get(bandwidth_metrics, "download_kbps", 0)
        upload_kbps == Get(bandwidth_metrics, "upload_kbps", 0)
    IN IF IsNone(download_kbps) \/ IsNone(upload_kbps)
       THEN [raised |-> "TypeError"]
       ELSE
       [latency_avg |-> Get(latency_metrics, "avg_latency", None),
        latency_min |-> Get(latency_metrics, "min_latency",
                            Get(latency_metrics, "avg_latency", None)),
        latency_max |-> Get(latency_metrics, "max_latency", None),
        packet_loss_percentage |->
            IF ~IsNone(packet_loss_value) THEN packet_loss_value ELSE 0,
        download_mbps |-> download_kbps \div 1000,
        upload_mbps |-> upload_kbps \div 1000,
        wan_latency_avg |-> Get(wan_metrics, "avg_latency", None),
        wan_latency_max |-> Get(wan_metrics, "max_latency", None),
        wan_download_kbps |-> Get(wan_metrics, "download_kbps", None),
        wan_upload_kbps |-> Get(wan_metrics, "upload_kbps", None),
        wan_packet_loss |-> Get(wan_metrics, "packet_loss", None),
        wan_uptime |-> Get(wan_metrics, "uptime", None),
        wan_downtime |-> Get(wan_metrics, "downtime", None),
        isp_name |-> Get(wan_metrics, "isp_name", None),
        isp_asn |-> Get(wan_metrics, "isp_asn", None)]

(***************************************************************************)
(* C16.  For each of the four categories, the values the ISP-metrics       *)
(* entity of a site reports are those of the sample with the greatest      *)
(* time that the snapshot stores for the site and the category; a          *)
(* category with a stored sample is reported from it, not from a default.  *)
(* Violated: the coordinator stores the packet-loss samples under the key  *)
(* "packet_loss" and the entity reads "packet-loss", so the packet loss    *)
(* reported is always the default 0.                                       *)
(***************************************************************************)
\* The sample with the greatest time that the snapshot stores for a site
\* under the key of a category.
StoredLatest(site_id, metric_type) ==
    LET stored == data.isp_metrics[site_id][KeyOf(metric_type)]
    IN stored[MaxKey(DOMAIN stored)]

HasStored(site_id, metric_type) ==
    /\ KeyOf(metric_type) \in DOMAIN data.isp_metrics[site_id]
    /\ data.isp_metrics[site_id][KeyOf(metric_type)] # EmptyDict

C16_LatestSampleReported ==
    (IsDict(data) /\ DOMAIN data = SnapshotKeys)
        => \A site_id \in DOMAIN data.isp_metrics :
             LET attrs == ExtraStateAttributes(data, site_id)
             IN /\ HasStored(site_id, "latency")
                     => /\ attrs.latency_avg = StoredLatest(site_id, "latency").avg_latency
                        /\ attrs.latency_max = StoredLatest(site_id, "latency").max_latency
                /\ HasStored(site_id, "bandwidth")
                     => /\ attrs.download_mbps * 1000 =
                              StoredLatest(site_id, "bandwidth").download_kbps
                        /\ attrs.upload_mbps * 1000 =
                              StoredLatest(site_id, "bandwidth").upload_kbps
                /\ HasStored(site_id, "wan")
                     => /\ attrs.wan_latency_avg = StoredLatest(site_id, "wan").avg_latency
                        /\ attrs.wan_packet_loss = StoredLatest(site_id, "wan").packet_loss
                        /\ attrs.isp_name = StoredLatest(site_id, "wan").isp_name
                /\ HasStored(site_id, "packet-loss")
                     => attrs.packet_loss_percentage =
                            StoredLatest(site_id, "packet-loss").packet_loss

(***************************************************************************)
(* C17.  In every non-empty snapshot of a successful cycle, isp_metrics    *)
(* has exactly one entry for each site of the sites collection that has a  *)
(* siteId, and each entry has exactly the four category keys latency,      *)
(* packet-loss, bandwidth and wan, each a map from times to samples.       *)
(* Violated: the entry built by the coordinator has the key "packet_loss"  *)
(* where the claim, like the entity that reads the entry (C16), has        *)
(* "packet-loss".                                                          *)
(***************************************************************************)
CategoryKeys == {"latency", "packet-loss", "bandwidth", "wan"}

C17_MetricsKeyedBySiteAndCategory ==
    (pc = "done" /\ outcome = "success" /\ data # EmptyDict)
        => /\ DOMAIN data.isp_metrics = IdsOf(data.sites, "siteId")
           /\ \A site_id \in DOMAIN data.isp_metrics :
                /\ DOMAIN data.isp_metrics[site_id] = CategoryKeys
                /\ \A key \in DOMAIN data.isp_metrics[site_id] :
                       DOMAIN data.isp_metrics[site_id][key] \subseteq Range(TimeOrder)

(***************************************************************************)
(* C18.  The cycle is a function of the backend's answers: a cycle whose   *)
(* requests are answered as those of the first cycle were issues the same  *)
(* requests, ends with the same outcome and, when successful, returns an   *)
(* equal snapshot, whatever the first cycle left behind.                   *)
(***************************************************************************)
C18_SameAnswersSameSnapshot ==
    (replay.on /\ cycles > 1)
        => /\ Len(requests) <= Len(replay.prev_requests)
           /\ \A j \in DOMAIN requests : requests[j] = replay.prev_requests[j]
           /\ pc \notin {"done", "isp_loop"}
                => Len(replay.answers) < Len(replay.prev_answers)
           /\ pc = "done"
                => /\ requests = replay.prev_requests
                   /\ replay.answers = replay.prev_answers
                   /\ outcome = replay.prev_outcome
                   /\ outcome = "success" => data = replay.prev_data

\* A second cycle answered as the first, one answer a 404 on a status
\* request, has ended with a full snapshot.
C18_Witness ==
    /\ replay.on
    /\ cycles = 2
    /\ pc = "done"
    /\ outcome = "success"
    /\ DOMAIN data = SnapshotKeys
    /\ \E j \in DOMAIN requests :
           requests[j].path = SdwanStatusPath /\ replay.answers[j] = "404"

(***************************************************************************)
(* The sensor platform.  async_setup_entry runs once, after the first      *)
(* refresh has succeeded, and builds its entities from the snapshot and    *)
(* the sites selected in the config entry.  The entities read the snapshot *)
(* and write nothing the coordinator reads.                                *)
(***************************************************************************)
\* str.lower() on the names this model's snapshots hold.
Lower(str) ==
    CASE str = "Office" -> "office"
      [] str = "UCK" -> "uck"
      [] str = "UDMPRO" -> "udmpro"
      [] str = "SW1" -> "sw1"
      [] str = "OK" -> "ok"
      [] OTHER -> str

\* The host map where only the hostname names a host.
RECURSIVE SiteHostMapHostnameOnly(_, _)
SiteHostMapHostnameOnly(hosts, n) ==
    IF n = 0 THEN EmptyDict
    ELSE LET host == hosts[n]
             host_id == Get(host, "id", "")
             reported == Get(host, "reportedState", EmptyDict)
             hostname == Lower(Get(reported, "hostname", ""))
             hardware == Get(reported, "hardware", EmptyDict)
             before == SiteHostMapHostnameOnly(hosts, n - 1)
         IN IF host_id # "" /\ hostname # ""
            THEN (host_id :> [hostname |-> hostname, hardware |-> hardware]) @@ before
            ELSE before

\* site_host_map after the hosts 1..n of the snapshot: a host with an id and
\* a hostname or, failing that, a hardware short name; a later host of the
\* same id replaces an earlier one.
RECURSIVE SiteHostMap(_, _)
SiteHostMap(hosts, n) ==
    IF n = 0 THEN EmptyDict
    ELSE LET host == hosts[n]
             host_id == Get(host, "id", "")
             reported == Get(host, "reportedState", EmptyDict)
             hostname == Lower(Get(reported, "hostname", ""))
             hardware == Get(reported, "hardware", EmptyDict)
             shortname == Lower(Get(hardware, "shortname", ""))
             device_name == IF hostname # "" THEN hostname ELSE shortname
             before == SiteHostMap(hosts, n - 1)
         IN IF host_id # "" /\ device_name # ""
            THEN (host_id :> [hostname |-> device_name, hardware |-> hardware]) @@ before
            ELSE before

\* The constructors: what each entity keeps of its arguments.  A unique id
\* and a device identifier are kept as the list of their parts between
\* underscores, f"site_{site_id}" as <<"site", site_id>>, so that the
\* prefix tests, the split and the slice of the unload can be computed.
UniFiSiteSensor(site_id, site_name, host_id) ==
    [kind |-> "site", site_id |-> site_id, name |-> site_name, host_id |-> host_id,
     unique_id |-> << "site", site_id >>,
     identifier |-> << "site", site_id >>]

UniFiDeviceSensor(site_id, site_name, device_id, device_name, device_mac) ==
    [kind |-> "device", site_id |-> site_id, device_id |-> device_id,
     name |-> device_name, mac |-> device_mac,
     unique_id |-> << site_id, device_mac >>,
     identifier |-> << site_id, device_mac >>]

UniFiISPMetricsDevice(site_id, site_name, host_id) ==
    [kind |-> "isp", site_id |-> site_id, host_id |-> host_id,
     name |-> site_name \o " ISP Metrics",
     unique_id |-> << site_id, "isp", "metrics" >>,
     identifier |-> << site_id >>]

\* The device entities of host_devices[1..n]: one per device with an id, a
\* mac and a name.
RECURSIVE DeviceEntities(_, _, _, _, _)
DeviceEntities(host_devices, site_id, site_name, site_prefix, n) ==
    IF n = 0 THEN << >>
    ELSE LET device == host_devices[n]
             device_id == Get(device, "id", "")
             device_name == Lower(Get(device, "name", ""))
             device_mac == Get(device, "mac", "")
             before == DeviceEntities(host_devices, site_id, site_name, site_prefix, n - 1)
         IN IF device_id # "" /\ device_mac # "" /\ device_name # ""
            THEN Append(before, UniFiDeviceSensor(site_id, site_name, device_id,
                                                  site_prefix \o "-" \o device_name,
                                                  device_mac))
            ELSE before

\* One pass of the loop over the sites of the snapshot: the entities that
\* `site` adds.
SiteSetup(snap, selected_sites, site_host_map, site) ==
    LET site_id == Get(site, "siteId", "")
        host_id == Get(site, "hostId", "")
    IN IF site_id \notin selected_sites THEN << >>
       ELSE IF site_id # "" /\ host_id # "" /\ host_id \in DOMAIN site_host_map
       THEN LET hostname == site_host_map[host_id].hostname
                site_name == hostname \o "-site"
                groups == Get(snap, "devices", << >>)
                host_devices == HostDevices(groups, host_id, Len(groups))
            IN << UniFiSiteSensor(site_id, site_name, host_id) >>
               \o DeviceEntities(host_devices, site_id, site_name, hostname,
                                 Len(host_devices))
               \o << UniFiISPMetricsDevice(site_id, site_name, host_id) >>
       ELSE << >>

\* The entities of the sites 1..n of the snapshot, in the order they are added.
RECURSIVE SiteEntities(_, _, _)
SiteEntities(snap, selected_sites, n) ==
    IF n = 0 THEN << >>
    ELSE LET hosts == Get(snap, "data", << >>)
         IN SiteEntities(snap, selected_sites, n - 1)
            \o SiteSetup(snap, selected_sites, SiteHostMap(hosts, Len(hosts)),
                         Get(snap, "sites", << >>)[n])

UniFiSDWANConfigSensor(cfg_id, config_name) ==
    [kind |-> "sdwan_config", config_id |-> cfg_id,
     name |-> config_name \o " Config",
     unique_id |-> << "sdwan", "config", cfg_id >>,
     identifier |-> << "sdwan", "config", cfg_id >>]

UniFiSDWANHubSensor(cfg_id, hub_data, config_name) ==
    [kind |-> "sdwan_hub", config_id |-> cfg_id, hub_id |-> Get(hub_data, "id", ""),
     site_id |-> Get(hub_data, "siteId", ""),
     unique_id |-> << "sdwan", "hub", cfg_id, Get(hub_data, "id", "") >>,
     identifier |-> << "sdwan", "hub", cfg_id, Get(hub_data, "id", "") >>]

UniFiSDWANSpokeSensor(cfg_id, spoke_data, config_name) ==
    [kind |-> "sdwan_spoke", config_id |-> cfg_id,
     spoke_id |-> Get(spoke_data, "id", ""), site_id |-> Get(spoke_data, "siteId", ""),
     unique_id |-> << "sdwan", "spoke", cfg_id, Get(spoke_data, "id", "") >>,
     identifier |-> << "sdwan", "spoke", cfg_id, Get(spoke_data, "id", "") >>]

\* The hub sensors of hubs[1..n].
RECURSIVE HubEntities(_, _, _, _)
HubEntities(cfg_id, hubs, config_name, n) ==
    IF n = 0 THEN << >>
    ELSE Append(HubEntities(cfg_id, hubs, config_name, n - 1),
                UniFiSDWANHubSensor(cfg_id, hubs[n], config_name))

\* The spoke sensors of spokes[1..n].
RECURSIVE SpokeEntities(_, _, _, _)
SpokeEntities(cfg_id, spokes, config_name, n) ==
    IF n = 0 THEN << >>
    ELSE Append(SpokeEntities(cfg_id, spokes, config_name, n - 1),
                UniFiSDWANSpokeSensor(cfg_id, spokes[n], config_name))

\* The entities one config adds, were its id not looked at.
ConfigSetupAnyConfig(config) ==
    LET cfg_id == Get(config, "id", "")
        config_name == Get(config, "name", "SDWAN-" \o cfg_id)
        hubs == Get(config, "hubs", << >>)
        spokes == Get(config, "spokes", << >>)
    IN << UniFiSDWANConfigSensor(cfg_id, config_name) >>
       \o HubEntities(cfg_id, hubs, config_name, Len(hubs))
       \o SpokeEntities(cfg_id, spokes, config_name, Len(spokes))

\* One pass of the loop over sdwan_configs: the entities that `config` adds,
\* none when it has no id.
ConfigSetup(config) ==
    LET cfg_id == Get(config, "id", "")
        config_name == Get(config, "name", "SDWAN-" \o cfg_id)
        hubs == Get(config, "hubs", << >>)
        spokes == Get(config, "spokes", << >>)
    IN IF cfg_id # ""
       THEN << UniFiSDWANConfigSensor(cfg_id, config_name) >>
            \o HubEntities(cfg_id, hubs, config_name, Len(hubs))
            \o SpokeEntities(cfg_id, spokes, config_name, Len(spokes))
       ELSE << >>

\* The entities of sdwan_configs[1..n].
RECURSIVE SdwanEntities(_, _)
SdwanEntities(configs, n) ==
    IF n = 0 THEN << >>
    ELSE SdwanEntities(configs, n - 1) \o ConfigSetup(configs[n])

\* UniFiSDWANConfigSensor._get_config: the first config of the snapshot with
\* the entity's id, None when there is none or no snapshot.
GetConfig(snap, id) ==
    IF ~ObjTruthy(snap) THEN None
    ELSE LET configs == Get(snap, "sdwan_configs", << >>)
             found == {j \in DOMAIN configs : Get(configs[j], "id", "") = id}
         IN IF found = {} THEN None
            ELSE configs[CHOOSE j \in found : \A other \in found : j <= other]

\* UniFiSDWANConfigSensor._get_config_status.
GetConfigStatus(snap, id) ==
    IF ~ObjTruthy(snap) THEN None
    ELSE Get(Get(snap, "sdwan_statuses", EmptyDict), id, None)

\* UniFiSDWANConfigSensor.native_value.
NativeValue(snap, id) ==
    LET status == GetConfigStatus(snap, id)
    IN IF Truthy(status) THEN Lower(Get(status, "generateStatus", "unknown"))
       ELSE "unknown"

\* UniFiSDWANConfigSensor.extra_state_attributes: the attributes taken from
\* the config.
ConfigStateAttributes(snap, id) ==
    LET config == GetConfig(snap, id)
    IN IF Truthy(config)
       THEN [id |-> id,
             hub_count |-> Len(Get(config, "hubs", << >>)),
             spoke_count |-> Len(Get(config, "spokes", << >>))]
       ELSE EmptyDict

\* async_setup_entry of the sensor platform: the entities handed to
\* async_add_entities.
AsyncSetupEntry ==
    /\ pc = "done"
    /\ outcome = "success"
    /\ ~sensor.added
    /\ LET sites == Get(data, "sites", << >>)
           sdwan_configs_ == IF ObjTruthy(data) THEN Get(data, "sdwan_configs", << >>)
                             ELSE << >>
       IN sensor' = [sensor EXCEPT
                        !.added = TRUE,
                        !.entities = SiteEntities(data, sensor.selected_sites, Len(sites))
                                     \o SdwanEntities(sdwan_configs_, Len(sdwan_configs_))]
    /\ UNCHANGED <<pc, coordVars, respVars, sdwanVars, ispVars, requests, last,
                   got404, faults, cycles, replay, hass, flow>>

(***************************************************************************)
(* The snapshots the platform is set up on: what a first refresh can       *)
(* return for a backend that holds some of these hosts and configs.        *)
(***************************************************************************)
\* Hosts: named by hostname, by hardware short name only, by neither, and
\* one without an id.
SetupHosts ==
    << [id |-> "H1", reportedState |-> [hostname |-> "Office",
                                        hardware |-> [shortname |-> "UDMPRO"]]],
       [id |-> "H2", reportedState |-> [hostname |-> "",
                                        hardware |-> [shortname |-> "UCK"]]],
       [id |-> "H3", reportedState |-> [hostname |-> "",
                                        hardware |-> [mac |-> "00:11"]]],
       [reportedState |-> [hostname |-> "Lab"]] >>

\* Sites: of each of the hosts, one without a siteId, one of a host the
\* backend does not list and one without a hostId.
SetupSites ==
    << [siteId |-> "A", hostId |-> "H1",
        statistics |-> [counts |-> [totalDevice |-> 3, offlineDevice |-> 0]]],
       [hostId |-> "H1"],
       [siteId |-> "B", hostId |-> "H2",
        statistics |-> [counts |-> [totalDevice |-> 1, offlineDevice |-> 1]]],
       [siteId |-> "C", hostId |-> "H3"],
       [siteId |-> "D", hostId |-> "H9"],
       [siteId |-> "E"] >>

\* Device groups: devices online, offline and without a status, a device
\* without a mac, a group of the unnamed host and a group without devices.
SetupDevices ==
    << [hostId |-> "H1",
        devices |-> << [id |-> "D1", mac |-> "aa:bb", name |-> "SW1", status |-> "online"],
                       [id |-> "D3", name |-> "ap2", status |-> "online"],
                       [id |-> "D6", mac |-> "aa:dd", name |-> "cam", status |-> "offline"] >>],
       [hostId |-> "H2",
        devices |-> << [id |-> "D2", mac |-> "cc:dd", name |-> "ap1"] >>],
       [hostId |-> "H3",
        devices |-> << [id |-> "D5", mac |-> "ee:ff", name |-> "gw3", status |-> "online"] >>],
       [hostId |-> "H1"] >>

\* Configs: with its detail merged in, without an id, with empty lists and
\* as listed, its detail never merged.
SetupConfigs ==
    << [id |-> "c1", name |-> "hq", type |-> "sdwan-hbsp",
        hubs |-> << [id |-> "h1", siteId |-> "A"], [id |-> "h2", siteId |-> "B"] >>,
        spokes |-> << [id |-> "s1", siteId |-> "B"] >>],
       [name |-> "draft"],
       [id |-> "c2", name |-> "lab", hubs |-> << >>, spokes |-> << >>],
       [id |-> "c3", name |-> "new"] >>

\* Statuses as stored: a status of c1, and one of c3 without generateStatus.
SetupStatuses ==
    ("c1" :> BackendStatus("c1")) @@ ("c3" :> [id |-> "c3", hubs |-> << >>])

\* The elements of seq at the indices in `keep`, in order.
RECURSIVE SubSeq2(_, _, _)
SubSeq2(seq, keep, n) ==
    IF n = 0 THEN << >>
    ELSE IF n \in keep THEN Append(SubSeq2(seq, keep, n - 1), seq[n])
    ELSE SubSeq2(seq, keep, n - 1)

\* The dict d restricted to the keys in `keys`.
Restrict(d, keys) == [key \in DOMAIN d \cap keys |-> d[key]]

SetupSnapshots ==
    {EmptyDict} \cup
    {[data |-> SubSeq2(SetupHosts, hs, Len(SetupHosts)),
      sites |-> SetupSites,
      devices |-> SetupDevices,
      isp_metrics |-> EmptyDict,
      sdwan_configs |-> SubSeq2(SetupConfigs, cs, Len(SetupConfigs)),
      sdwan_statuses |-> Restrict(SetupStatuses, ss)] :
        hs \in SUBSET DOMAIN SetupHosts,
        cs \in SUBSET DOMAIN SetupConfigs,
        ss \in SUBSET DOMAIN SetupStatuses}

\* The first refresh has returned a snapshot and the config entry holds the
\* selected sites.
InitSetup ==
    /\ pc = "done"
    /\ data \in SetupSnapshots
    /\ last_update_success = TRUE
    /\ outcome = "success"
    /\ sites_response = None
    /\ hosts_response = None
    /\ devices_response = None
    /\ sdwan_configs_response = None
    /\ sdwan_configs = << >>
    /\ sdwan_statuses = EmptyDict
    /\ i = 0
    /\ config_id = ""
    /\ isp_metrics = EmptyDict
    /\ si = 0
    /\ k = 0
    /\ metrics = EmptyDict
    /\ requests = << >>
    /\ last = [req |-> NoReq, kind |-> "-"]
    /\ got404 = {}
    /\ faults = 0
    /\ cycles = 1
    /\ replay = NoReplay
    /\ \E selected_sites \in SUBSET {"A", "B", "C", "D"} :
           sensor = [NoSensor EXCEPT !.selected_sites = selected_sites]
    /\ hass = NoHass
    /\ flow = NoFlow

NextSetup == AsyncSetupEntry

SpecSetup == InitSetup /\ [][NextSetup]_vars

(***************************************************************************)
(* C19.  Sensor setup creates a site entity, and with it the site's device *)
(* entities and its ISP entity, exactly for the sites with a siteId among  *)
(* the selected sites and a hostId of a host of the snapshot that has a    *)
(* hostname or a hardware short name.  A site whose host does not resolve  *)
(* gets no entity, and neither do the devices of that host, which stay in  *)
(* the snapshot.                                                           *)
(***************************************************************************)
\* host_id is the id of a host of the snapshot that carries a name.
Resolves(snap, host_id) ==
    /\ host_id # ""
    /\ \E host \in Range(Get(snap, "data", << >>)) :
           /\ "id" \in DOMAIN host /\ host.id = host_id
           /\ \E reported \in {Get(host, "reportedState", EmptyDict)} :
                  \/ Get(reported, "hostname", "") # ""
                  \/ Get(Get(reported, "hardware", EmptyDict), "shortname", "") # ""

\* The devices of the snapshot grouped under host_id.
DevicesUnder(snap, host_id) ==
    UNION {Range(group.devices) :
             group \in {g \in Range(Get(snap, "devices", << >>)) :
                          "devices" \in DOMAIN g /\ Get(g, "hostId", "") = host_id}}

C19_SiteEntitiesForResolvedSelectedSites ==
    sensor.added =>
        LET E == Range(sensor.entities)
        IN \A site \in Range(Get(data, "sites", << >>)) :
               LET site_id == Get(site, "siteId", "")
                   host_id == Get(site, "hostId", "")
                   surfaced == /\ site_id # ""
                               /\ site_id \in sensor.selected_sites
                               /\ Resolves(data, host_id)
               IN /\ surfaced <=> \E e \in E : /\ e.kind = "site"
                                               /\ e.site_id = site_id
                                               /\ e.host_id = host_id
                  /\ surfaced <=> \E e \in E : /\ e.kind = "isp"
                                               /\ e.site_id = site_id
                  /\ surfaced =>
                        \A device \in DevicesUnder(data, host_id) :
                            ({"id", "mac", "name"} \subseteq DOMAIN device)
                                <=> \E e \in E : /\ e.kind = "device"
                                                 /\ e.site_id = site_id
                                                 /\ e.device_id = Get(device, "id", "")
                  /\ (site_id # "" /\ ~surfaced) =>
                        /\ \A e \in E :
                               e.kind \in {"site", "isp", "device"} => e.site_id # site_id
                        /\ ~Resolves(data, host_id) =>
                               \A device \in DevicesUnder(data, host_id) :
                                   \A e \in E : e.kind = "device" =>
                                                   e.device_id # Get(device, "id", "")

\* Set up with every site selected: site A is surfaced under its hostname and
\* site B under the short name of its hardware; site C, whose host carries
\* neither, is not, and its device D5 is in the snapshot.
C19_Witness ==
    /\ sensor.added
    /\ sensor.selected_sites = {"A", "B", "C", "D"}
    /\ \E e \in Range(sensor.entities) :
           e.kind = "site" /\ e.site_id = "A" /\ e.name = "office-site"
    /\ \E e \in Range(sensor.entities) :
           e.kind = "site" /\ e.site_id = "B" /\ e.name = "uck-site"
    /\ \E e \in Range(sensor.entities) :
           e.kind = "device" /\ e.site_id = "A" /\ e.name = "office-sw1"
    /\ \E host \in Range(data.data) : Get(host, "id", "") = "H3"
    /\ \A e \in Range(sensor.entities) :
           e.kind \in {"site", "isp", "device"} => e.site_id # "C"
    /\ \E device \in DevicesUnder(data, "H3") : device.id = "D5"

(***************************************************************************)
(* C20.  Every SD-WAN config of the snapshot that has an id gets exactly   *)
(* one config entity and no other config does.  The entity's hub_count and *)
(* spoke_count are the lengths of the config's hub and spoke lists, 0 for  *)
(* a list the config does not carry, and its state reads "unknown" when    *)
(* the snapshot holds no status under the config's id.                     *)
(***************************************************************************)
C20_OneConfigEntityCountsAndUnknown ==
    sensor.added =>
        LET configs == Get(data, "sdwan_configs", << >>)
            statuses == Get(data, "sdwan_statuses", EmptyDict)
            config_entities == {n \in DOMAIN sensor.entities :
                                  sensor.entities[n].kind = "sdwan_config"}
        IN /\ \A j \in DOMAIN configs :
                  "id" \in DOMAIN configs[j] =>
                      /\ Cardinality({n \in config_entities :
                             sensor.entities[n].config_id = configs[j].id}) = 1
                      /\ ConfigStateAttributes(data, configs[j].id).hub_count
                            = (IF "hubs" \in DOMAIN configs[j]
                               THEN Len(configs[j].hubs) ELSE 0)
                      /\ ConfigStateAttributes(data, configs[j].id).spoke_count
                            = (IF "spokes" \in DOMAIN configs[j]
                               THEN Len(configs[j].spokes) ELSE 0)
                      /\ configs[j].id \notin DOMAIN statuses
                            => NativeValue(data, configs[j].id) = "unknown"
           /\ Cardinality(config_entities)
                 = Cardinality({j \in DOMAIN configs : "id" \in DOMAIN configs[j]})

\* Set up on a snapshot with the four configs and the status of c1 only: c1
\* has two hubs and a spoke and reads "ok"; c3, listed without hubs or
\* spokes, counts 0 and reads "unknown", as does c2; the config without an
\* id has no entity.
C20_Witness ==
    /\ sensor.added
    /\ data # EmptyDict
    /\ Len(data.sdwan_configs) = Len(SetupConfigs)
    /\ DOMAIN data.sdwan_statuses = {"c1"}
    /\ Cardinality({n \in DOMAIN sensor.entities :
                      sensor.entities[n].kind = "sdwan_config"}) = Len(SetupConfigs) - 1
    /\ ConfigStateAttributes(data, "c1").hub_count = Len(SetupConfigs[1].hubs)
    /\ NativeValue(data, "c1") = "ok"
    /\ ConfigStateAttributes(data, "c3").hub_count = 0
    /\ NativeValue(data, "c3") = "unknown"
    /\ NativeValue(data, "c2") = "unknown"

(***************************************************************************)
(* The states of the site and device entities, read from the snapshot the  *)
(* coordinator holds.                                                      *)
(***************************************************************************)
STATE_ONLINE == "online"
STATE_OFFLINE == "offline"

\* The first element of seq that satisfies the test at an index in `found`.
FirstAt(found) == CHOOSE n \in found : \A other \in found : n <= other

\* UniFiSiteSensor._get_site_data: the first site of the snapshot with the
\* entity's site id.
GetSiteData(snap, site_id) ==
    IF ~ObjTruthy(snap) THEN None
    ELSE LET sites == Get(snap, "sites", << >>)
             found == {n \in DOMAIN sites : Get(sites[n], "siteId", "") = site_id}
         IN IF found = {} THEN None ELSE sites[FirstAt(found)]

\* UniFiSiteSensor.native_value.
SiteNativeValue(snap, site_id) ==
    LET site == GetSiteData(snap, site_id)
    IN IF Truthy(site)
       THEN LET stats == Get(site, "statistics", EmptyDict)
                counts == Get(stats, "counts", EmptyDict)
                offline_devices == Get(counts, "offlineDevice", 0)
            IN IF offline_devices > 0 THEN STATE_OFFLINE ELSE STATE_ONLINE
       ELSE STATE_OFFLINE

\* Every device of the groups 1..n that carry a devices list, in order.
RECURSIVE DevicesInOrder(_, _)
DevicesInOrder(groups, n) ==
    IF n = 0 THEN << >>
    ELSE DevicesInOrder(groups, n - 1) \o Get(groups[n], "devices", << >>)

\* UniFiDeviceSensor._get_device: the first device, over all hosts, with the
\* entity's mac or the entity's id.
GetDevice(snap, device_id, device_mac) ==
    IF ~ObjTruthy(snap) THEN None
    ELSE LET groups == Get(snap, "devices", << >>)
             devices == DevicesInOrder(groups, Len(groups))
             found == {n \in DOMAIN devices :
                         \/ Get(devices[n], "mac", "") = device_mac
                         \/ Get(devices[n], "id", "") = device_id}
         IN IF found = {} THEN None ELSE devices[FirstAt(found)]

\* native_value of a device entity that reports every device it finds online.
DeviceNativeValueFoundIsOnline(snap, device_id, device_mac) ==
    IF ~Truthy(GetDevice(snap, device_id, device_mac)) THEN STATE_OFFLINE
    ELSE STATE_ONLINE

\* UniFiDeviceSensor.native_value.
DeviceNativeValue(snap, device_id, device_mac) ==
    LET device == GetDevice(snap, device_id, device_mac)
    IN IF ~Truthy(device) THEN STATE_OFFLINE
       ELSE IF Get(device, "status", "") = "online" THEN STATE_ONLINE
       ELSE STATE_OFFLINE

\* The reported hostname of the host host_id of the snapshot, "" when the
\* snapshot has no such host.
ReportedHostname(snap, host_id) ==
    LET hosts == Get(snap, "data", << >>)
        found == {n \in DOMAIN hosts : Get(hosts[n], "id", "") = host_id}
    IN IF found = {} THEN ""
       ELSE Get(Get(hosts[FirstAt(found)], "reportedState", EmptyDict), "hostname", "")

\* The sites of the snapshot that are selected and sit on a host reporting a
\* hostname, each with that hostname.
NamedSites ==
    {[site |-> site, h |-> ReportedHostname(data, Get(site, "hostId", ""))] :
        site \in {s \in Range(Get(data, "sites", << >>)) :
                    /\ Get(s, "siteId", "") \in sensor.selected_sites
                    /\ ReportedHostname(data, Get(s, "hostId", "")) # ""}}

\* The devices under the host of `site` that have an id, a mac and a name.
NamedDevices(site) ==
    {device \in DevicesUnder(data, site.hostId) :
        {"id", "mac", "name"} \subseteq DOMAIN device}

(***************************************************************************)
(* C21 as stated.  A selected site S on a host reporting hostname h gets   *)
(* a site entity named "h-site", online when the site counts no offline    *)
(* device, and each device of the host with id, mac m and name n gets an   *)
(* entity named "h-n" with unique id "S_m", online exactly when the        *)
(* device's status is "online".                                            *)
(***************************************************************************)
C21_NamesAsReported ==
    sensor.added =>
        \A ns \in NamedSites :
            /\ \E e \in Range(sensor.entities) :
                   /\ e.kind = "site" /\ e.site_id = ns.site.siteId
                   /\ e.name = ns.h \o "-site"
            /\ \A device \in NamedDevices(ns.site) :
                   \E e \in Range(sensor.entities) :
                       /\ e.kind = "device"
                       /\ e.unique_id = << ns.site.siteId, device.mac >>
                       /\ e.name = ns.h \o "-" \o device.name

(***************************************************************************)
(* C21, amended.  The same, with the names made of the hostname and the    *)
(* device name in lower case: "lower(h)-site" and "lower(h)-lower(n)".     *)
(***************************************************************************)
C21_NamesLowerCasedAndStates ==
    sensor.added =>
        \A ns \in NamedSites :
            LET counts == Get(Get(ns.site, "statistics", EmptyDict), "counts", EmptyDict)
            IN /\ \E e \in Range(sensor.entities) :
                      /\ e.kind = "site" /\ e.site_id = ns.site.siteId
                      /\ e.name = Lower(ns.h) \o "-site"
                      /\ Get(counts, "offlineDevice", 0) = 0
                            => SiteNativeValue(data, e.site_id) = "online"
               /\ \A device \in NamedDevices(ns.site) :
                      \E e \in Range(sensor.entities) :
                          /\ e.kind = "device"
                          /\ e.unique_id = << ns.site.siteId, device.mac >>
                          /\ e.name = Lower(ns.h) \o "-" \o Lower(device.name)
                          /\ DeviceNativeValue(data, e.device_id, e.mac) = "online"
                                <=> ("status" \in DOMAIN device /\ device.status = "online")

\* Set up with site A selected, on host H1 reporting hostname "Office", with
\* device SW1 online and device cam offline: the site entity is
\* "office-site" and online, the device entities "office-sw1" with unique id
\* "A_aa:bb", online, and "office-cam", offline.
C21_Witness ==
    /\ sensor.added
    /\ "A" \in sensor.selected_sites
    /\ ReportedHostname(data, "H1") = "Office"
    /\ \E e \in Range(sensor.entities) :
           /\ e.kind = "site" /\ e.name = "office-site"
           /\ SiteNativeValue(data, e.site_id) = "online"
    /\ \E e \in Range(sensor.entities) :
           /\ e.kind = "device" /\ e.name = "office-sw1" /\ e.unique_id = << "A", "aa:bb" >>
           /\ DeviceNativeValue(data, e.device_id, e.mac) = "online"
    /\ \E e \in Range(sensor.entities) :
           /\ e.kind = "device" /\ e.name = "office-cam"
           /\ DeviceNativeValue(data, e.device_id, e.mac) = "offline"

(***************************************************************************)
(* C22.  A cycle makes a single attempt per endpoint: among the requests   *)
(* of a cycle no two are the same, so the sites, hosts, devices and        *)
(* config-list endpoints are requested at most once, the detail and the    *)
(* status of a config at most once, the ISP metrics at most once per site  *)
(* and category, and no request is issued again once it has failed.        *)
(***************************************************************************)
C22_SingleAttempt ==
    /\ \A j1, j2 \in DOMAIN requests : requests[j1] = requests[j2] => j1 = j2
    /\ \A path \in {API_SITES_ENDPOINT, API_HOSTS_ENDPOINT, API_DEVICES_ENDPOINT,
                    API_SD_WAN_CONFIGS} :
           Cardinality({j \in DOMAIN requests : requests[j].path = path}) <= 1
    /\ \A req \in got404 :
           Cardinality({j \in DOMAIN requests : requests[j] = req}) = 1

\* A cycle has ended after the status request of c1 was answered 404: the
\* cycle went on to c2 and to the metrics of both sites without asking for
\* that status again.
C22_Witness ==
    /\ pc = "done"
    /\ outcome = "success"
    /\ StatusReq("c1") \in got404
    /\ DetailReq("c2") \in Range(requests)
    /\ \A site_id \in {"A", "B"} : \A j \in DOMAIN MetricTypes :
           IspReq(MetricTypes[j], site_id) \in Range(requests)

(***************************************************************************)
(* Availability of the entities.                                           *)
(***************************************************************************)
\* CoordinatorEntity.available, which every entity but the ISP-metrics one
\* inherits: the coordinator's last-success flag.
CoordinatorEntityAvailable(coordinator_last_update_success) ==
    coordinator_last_update_success

\* available of an ISP-metrics entity that looks at the snapshot only.
IspAvailableSnapshotOnly(coordinator_last_update_success, coordinator_data) ==
    ObjTruthy(coordinator_data)

\* UniFiISPMetricsDevice.available.
IspAvailable(coordinator_last_update_success, coordinator_data) ==
    coordinator_last_update_success /\ ObjTruthy(coordinator_data)

(***************************************************************************)
(* C23.  After any cycles, successful or failed: while the last-success    *)
(* flag is false every entity reports itself unavailable; the snapshot the *)
(* entities read changes only when a cycle returns successfully, so what   *)
(* they read after a failure is the last snapshot returned; and the        *)
(* ISP-metrics entity is available exactly when the last cycle succeeded   *)
(* and the snapshot is not empty.                                          *)
(***************************************************************************)
C23_UnavailableOnFailureLastSnapshotKept ==
    [][ /\ ~last_update_success'
            => /\ ~CoordinatorEntityAvailable(last_update_success')
               /\ ~IspAvailable(last_update_success', data')
        /\ data' # data
            => /\ pc' = "done" /\ pc # "done"
               /\ outcome' = "success"
               /\ last_update_success'
        /\ IspAvailable(last_update_success', data')
            <=> /\ outcome' = "success"
                /\ data' # None
                /\ data' # EmptyDict ]_vars

\* A second cycle has failed after a first that returned a full snapshot:
\* the entities are unavailable and device D1 still reads online from the
\* snapshot of the first cycle.
C23_Witness ==
    /\ cycles = 2
    /\ pc = "done"
    /\ outcome = "UpdateFailed"
    /\ ~last_update_success
    /\ ~IspAvailable(last_update_success, data)
    /\ DOMAIN data = SnapshotKeys
    /\ DeviceNativeValue(data, "D1", "aa:bb") = STATE_ONLINE

(***************************************************************************)
(* Unloading a config entry.  async_unload_entry goes through the devices  *)
(* and the entities registered for the entry and removes those it takes to *)
(* belong to a site that is not selected any more.                         *)
(***************************************************************************)
DOMAIN_NAME == "ha_unifi_site_manager"

\* The parts of a string joined by underscores again.
RECURSIVE JoinUnderscore(_)
JoinUnderscore(parts) ==
    IF Len(parts) = 0 THEN ""
    ELSE IF Len(parts) = 1 THEN parts[1]
    ELSE parts[1] \o "_" \o JoinUnderscore(Tail(parts))

\* str.startswith(prefix + "_") on a string kept as its parts.
StartsWith(parts, prefix) == Len(parts) > 1 /\ parts[1] = prefix

\* The loop over device.identifiers: whether the device is removed.  A
\* device of the integration carries one identifier of its domain.
DeviceRemoved(device, selected_sites) ==
    LET ours == {identifier \in device.identifiers : identifier[1] = DOMAIN_NAME}
    IN IF ours = {} THEN FALSE
       ELSE LET device_id == (CHOOSE identifier \in ours : TRUE)[2]
            IN IF StartsWith(device_id, "sdwan") THEN FALSE
               ELSE IF Len(device_id) > 1
               THEN device_id[1] \notin selected_sites
               ELSE FALSE

\* The site id taken from a unique id, were the prefix "site_" not looked for.
UniqueIdSiteNoPrefix(unique_id) == unique_id[1]

\* The site id the unload takes from a unique id that does not start with
\* "sdwan_": the rest after "site_" or the part before the first underscore.
UniqueIdSite(unique_id) ==
    IF StartsWith(unique_id, "site") THEN JoinUnderscore(Tail(unique_id))
    ELSE unique_id[1]

\* The loop over the entity entries: whether the entity is removed.
EntityRemoved(entity_entry, selected_sites) ==
    IF StartsWith(entity_entry.unique_id, "site")
    THEN LET site_id == UniqueIdSite(entity_entry.unique_id)
         IN site_id # "" /\ site_id \notin selected_sites
    ELSE IF StartsWith(entity_entry.unique_id, "sdwan") THEN FALSE
    ELSE LET site_id == UniqueIdSite(entity_entry.unique_id)
         IN site_id # "" /\ site_id \notin selected_sites

\* async_entries_for_config_entry_device.
AsyncEntriesForConfigEntryDevice(device_registry, config_entry_id) ==
    {device \in device_registry : config_entry_id \in device.config_entries}

\* async_entries_for_config_entry.
AsyncEntriesForConfigEntry(entity_registry, config_entry_id) ==
    {entity_entry \in entity_registry : config_entry_id = entity_entry.config_entry_id}

\* async_unload_entry.
AsyncUnloadEntry ==
    /\ hass.entry # None
    /\ hass.entry.state = "loaded"
    /\ LET selected_sites == DOMAIN hass.entry.sites
           devices == AsyncEntriesForConfigEntryDevice(hass.device_registry,
                                                       hass.entry.entry_id)
           entries == AsyncEntriesForConfigEntry(hass.entity_registry,
                                                 hass.entry.entry_id)
       IN hass' = [hass EXCEPT
                      !.device_registry =
                          @ \ {device \in devices : DeviceRemoved(device, selected_sites)},
                      !.entity_registry =
                          @ \ {entity_entry \in entries :
                                  EntityRemoved(entity_entry, selected_sites)},
                      !.entry.state = "not_loaded"]
    /\ UNCHANGED <<pc, coordVars, respVars, sdwanVars, ispVars, requests, last,
                   got404, faults, cycles, replay, sensor, flow>>

(***************************************************************************)
(* The registries an entry is unloaded with: the entities and devices that *)
(* a setup with an earlier selection of sites registered, and those of     *)
(* another config entry.  site_id notes the site an entry was registered   *)
(* for, "" for an SD-WAN entry; the unload does not read it.               *)
(***************************************************************************)
RegisteredSite(entity) ==
    IF entity.kind \in {"site", "device", "isp"} THEN entity.site_id ELSE ""

RegisteredDevices(entities, config_entry_id) ==
    {[identifiers |-> {<< DOMAIN_NAME, entity.identifier >>},
      config_entries |-> {config_entry_id},
      site_id |-> RegisteredSite(entity)] : entity \in Range(entities)}

RegisteredEntities(entities, config_entry_id) ==
    {[unique_id |-> entity.unique_id,
      config_entry_id |-> config_entry_id,
      site_id |-> RegisteredSite(entity)] : entity \in Range(entities)}

\* The sites of the inventory a selection can name, each with its name.
SelectableSites == ("A" :> "office-site") @@ ("B" :> "uck-site")

\* The snapshots of a backend that lists every host.
UnloadSnapshots ==
    {snap \in SetupSnapshots : snap # EmptyDict /\ Len(snap.data) = Len(SetupHosts)}

\* The coordinator between two cycles, holding `snapshot`.
Refreshed(snapshot) ==
    /\ pc = "done"
    /\ data = snapshot
    /\ last_update_success = TRUE
    /\ outcome = "success"
    /\ sites_response = None
    /\ hosts_response = None
    /\ devices_response = None
    /\ sdwan_configs_response = None
    /\ sdwan_configs = << >>
    /\ sdwan_statuses = EmptyDict
    /\ i = 0
    /\ config_id = ""
    /\ isp_metrics = EmptyDict
    /\ si = 0
    /\ k = 0
    /\ metrics = EmptyDict
    /\ requests = << >>
    /\ last = [req |-> NoReq, kind |-> "-"]
    /\ got404 = {}
    /\ faults = 0
    /\ cycles = 1
    /\ replay = NoReplay

\* The entry was set up with the sites `before` selected, the options flow
\* has stored the selection `now`, and the reload is about to unload it.
InitUnload ==
    /\ \E snapshot \in UnloadSnapshots : Refreshed(snapshot)
    /\ sensor = NoSensor
    /\ flow = NoFlow
    /\ \E before \in SUBSET DOMAIN SelectableSites, now \in SUBSET DOMAIN SelectableSites :
           LET sites == Get(data, "sites", << >>)
               configs == Get(data, "sdwan_configs", << >>)
               entities == SiteEntities(data, before, Len(sites))
                           \o SdwanEntities(configs, Len(configs))
               others == << UniFiSiteSensor("B", "lab-site", "H7"),
                            UniFiDeviceSensor("B", "lab-site", "D9", "lab-sw", "99:88"),
                            UniFiISPMetricsDevice("B", "lab-site", "H7") >>
           IN hass = [entry |-> [entry_id |-> "entry1", api_key |-> "k1",
                                 sites |-> Restrict(SelectableSites, now),
                                 state |-> "loaded"],
                      reloads |-> 1,
                      device_registry |-> RegisteredDevices(entities, "entry1")
                                          \cup RegisteredDevices(others, "entry2"),
                      entity_registry |-> RegisteredEntities(entities, "entry1")
                                          \cup RegisteredEntities(others, "entry2")]

NextUnload == AsyncUnloadEntry

SpecUnload == InitUnload /\ [][NextUnload]_vars

(***************************************************************************)
(* C24.  Unloading removes from the device registry the devices of the     *)
(* entry that belong to a site which is not selected, and only those: the  *)
(* site device site_<site id>, the device-sensor devices <site id>_<mac>   *)
(* and the ISP-metrics device <site id> of a selected site are kept, as is *)
(* every SD-WAN device.                                                    *)
(***************************************************************************)
C24_DevicesOfSelectedSitesKept ==
    [][ \A device \in hass.device_registry :
            "entry1" \in device.config_entries
                => (device \in hass'.device_registry
                        <=> \/ device.site_id = ""
                            \/ device.site_id \in DOMAIN hass.entry.sites) ]_vars

ApiKeys == {"k1", "k2"}

\* How a request of a flow is answered: 200 with the inventory, with a
\* shorter inventory, with an empty list or with an object without data; a
\* 401; another non-2xx status; a connection error; a timeout.
FlowKinds == {"ok", "few", "empty", "nodata", "401", "500", "neterr", "timeout"}

\* The body of a 200 answer to the sites request.
FlowSitesBody(kind) ==
    CASE kind = "ok" -> [data |-> SetupSites]
      [] kind = "few" -> [data |-> << SetupSites[1], SetupSites[5] >>]
      [] kind = "empty" -> [data |-> << >>]
      [] OTHER -> EmptyDict

\* The body of a 200 answer to the hosts request.
FlowHostsBody(kind) ==
    CASE kind = "ok" -> [data |-> SetupHosts]
      [] kind = "few" -> [data |-> << SetupHosts[2] >>]
      [] kind = "empty" -> [data |-> << >>]
      [] OTHER -> EmptyDict

\* What the body of `async with session.get(...)` raises: InvalidAuth on a
\* 401, ClientResponseError from raise_for_status, a ClientError when the
\* connection fails, and asyncio.TimeoutError, which is no ClientError, when
\* the total timeout expires.
SessionGetRaises(kind) ==
    CASE kind = "401" -> "InvalidAuth"
      [] kind = "500" -> "ClientResponseError"
      [] kind = "neterr" -> "ClientError"
      [] kind = "timeout" -> "TimeoutError"
      [] OTHER -> "none"

\* The handlers of _fetch_sites and _fetch_hosts of the config flow:
\* ClientResponseError and ClientError become CannotConnect, every other
\* exception becomes InvalidAuth.
ConfigFlowExcept(exc) ==
    CASE exc = "none" -> "none"
      [] exc \in {"ClientResponseError", "ClientError"} -> "CannotConnect"
      [] OTHER -> "InvalidAuth"

\* The handlers of _fetch_sites and _fetch_hosts of the options flow: no
\* catch-all, other exceptions propagate.
OptionsFlowExcept(exc) ==
    CASE exc = "none" -> "none"
      [] exc \in {"ClientResponseError", "ClientError"} -> "CannotConnect"
      [] OTHER -> exc

\* host_info of the config flow after the hosts 1..n: hosts with an id and
\* a hostname.
RECURSIVE ConfigHostInfo(_, _)
ConfigHostInfo(hosts, n) ==
    IF n = 0 THEN EmptyDict
    ELSE LET host == hosts[n]
             host_id == Get(host, "id", "")
             hostname == Lower(Get(Get(host, "reportedState", EmptyDict), "hostname", ""))
             before == ConfigHostInfo(hosts, n - 1)
         IN IF host_id # "" /\ hostname # "" THEN (host_id :> hostname) @@ before
            ELSE before

\* self._sites of the config flow after the sites 1..n: every site with a
\* siteId and a hostId, named after its host or "unknown-site".
RECURSIVE ConfigSites(_, _, _, _)
ConfigSites(sites_data, host_info, known, n) ==
    IF n = 0 THEN known
    ELSE LET site == sites_data[n]
             site_id == Get(site, "siteId", "")
             host_id == Get(site, "hostId", "")
             before == ConfigSites(sites_data, host_info, known, n - 1)
         IN IF site_id # "" /\ host_id # ""
            THEN (site_id :> (Get(host_info, host_id, "unknown") \o "-site")) @@ before
            ELSE before

\* host_info of the options flow after the hosts 1..n: hosts with an id and
\* a hostname or a hardware short name.
RECURSIVE OptionsHostInfo(_, _)
OptionsHostInfo(hosts, n) ==
    IF n = 0 THEN EmptyDict
    ELSE LET host == hosts[n]
             host_id == Get(host, "id", "")
             reported == Get(host, "reportedState", EmptyDict)
             hostname == Lower(Get(reported, "hostname", ""))
             shortname == Lower(Get(Get(reported, "hardware", EmptyDict), "shortname", ""))
             device_name == IF hostname # "" THEN hostname ELSE shortname
             before == OptionsHostInfo(hosts, n - 1)
         IN IF host_id # "" /\ device_name # "" THEN (host_id :> device_name) @@ before
            ELSE before

\* self._sites of the options flow after the sites 1..n: the sites whose
\* host is in host_info.
RECURSIVE OptionsSites(_, _, _, _)
OptionsSites(sites_data, host_info, known, n) ==
    IF n = 0 THEN known
    ELSE LET site == sites_data[n]
             site_id == Get(site, "siteId", "")
             host_id == Get(site, "hostId", "")
             before == OptionsSites(sites_data, host_info, known, n - 1)
         IN IF site_id # "" /\ host_id # "" /\ host_id \in DOMAIN host_info
            THEN (site_id :> (host_info[host_id] \o "-site")) @@ before
            ELSE before

\* _fetch_sites_and_devices of the config flow: self._sites as it leaves it,
\* or the exception it raises; `asked` are the answers it got.
ConfigFetchSitesAndDevices(known, sites_kind, hosts_kind) ==
    LET sites_exc == ConfigFlowExcept(SessionGetRaises(sites_kind))
        sites_body == FlowSitesBody(sites_kind)
        hosts_exc == ConfigFlowExcept(SessionGetRaises(hosts_kind))
        hosts_body == FlowHostsBody(hosts_kind)
    IN IF sites_exc # "none"
       THEN [raised |-> sites_exc, value |-> known, asked |-> << sites_kind >>]
       ELSE IF "data" \notin DOMAIN sites_body
       THEN [raised |-> "none", value |-> known, asked |-> << sites_kind >>]
       ELSE IF hosts_exc # "none"
       THEN [raised |-> hosts_exc, value |-> known, asked |-> << sites_kind, hosts_kind >>]
       ELSE LET hosts == Get(hosts_body, "data", << >>)
                host_info == ConfigHostInfo(hosts, Len(hosts))
            IN [raised |-> "none",
                value |-> ConfigSites(sites_body.data, host_info, known,
                                      Len(sites_body.data)),
                asked |-> << sites_kind, hosts_kind >>]

\* _fetch_sites_and_devices of the options flow.
OptionsFetchSitesAndDevices(known, sites_kind, hosts_kind) ==
    LET sites_exc == OptionsFlowExcept(SessionGetRaises(sites_kind))
        sites_body == FlowSitesBody(sites_kind)
        hosts_exc == OptionsFlowExcept(SessionGetRaises(hosts_kind))
        hosts_body == FlowHostsBody(hosts_kind)
    IN IF sites_exc # "none"
       THEN [raised |-> sites_exc, value |-> known, asked |-> << sites_kind >>]
       ELSE IF "data" \notin DOMAIN sites_body
       THEN [raised |-> "none", value |-> known, asked |-> << sites_kind >>]
       ELSE IF hosts_exc # "none"
       THEN [raised |-> hosts_exc, value |-> known, asked |-> << sites_kind, hosts_kind >>]
       ELSE LET hosts == Get(hosts_body, "data", << >>)
                host_info == OptionsHostInfo(hosts, Len(hosts))
            IN [raised |-> "none",
                value |-> OptionsSites(sites_body.data, host_info, known,
                                       Len(sites_body.data)),
                asked |-> << sites_kind, hosts_kind >>]

\* The except clauses of async_step_user.
UserStepError(exc) ==
    CASE exc = "InvalidAuth" -> "invalid_auth"
      [] exc = "CannotConnect" -> "cannot_connect"
      [] OTHER -> "unknown"

\* The dict of the selected sites that keeps every selected id.
SelectedSitesDictUnfiltered(selected_sites, known) ==
    [site_id \in selected_sites |-> Get(known, site_id, "unknown-site")]

\* selected_sites_dict of async_step_sites, new_sites of async_step_init:
\* the selected ids that are in self._sites, each with its name.
SelectedSitesDict(selected_sites, known) ==
    [site_id \in selected_sites \cap DOMAIN known |-> known[site_id]]

\* The site ids a user can submit: discovered ones and one that no
\* discovery finds.
SubmittableSites == {"A", "B", "Z"}

\* The flow is started: async_step_user without input shows the user form.
ConfigFlowInit ==
    /\ hass.entry = None
    /\ flow.handler = "none"
    /\ flow.attempts = 0
    /\ flow' = [NoFlow EXCEPT !.handler = "config", !.step = "user"]
    /\ UNCHANGED <<pc, coordVars, respVars, sdwanVars, ispVars, requests, last,
                   got404, faults, cycles, replay, sensor, hass>>

\* async_step_user with the form's input: discovery with the entered key,
\* then the sites form, or the user form again with an error.
AsyncStepUser ==
    /\ flow.handler = "config"
    /\ flow.step = "user"
    /\ flow.attempts < MaxAttempts
    /\ \E api_key \in ApiKeys, sites_kind \in FlowKinds, hosts_kind \in FlowKinds :
           LET r == ConfigFetchSitesAndDevices(flow.sites, sites_kind, hosts_kind)
           IN flow' = [flow EXCEPT
                          !.api_key = api_key,
                          !.attempts = @ + 1,
                          !.answers = r.asked,
                          !.sites = r.value,
                          !.found = IF r.raised = "none" THEN r.value ELSE EmptyDict,
                          !.errors = IF r.raised # "none" THEN UserStepError(r.raised)
                                     ELSE IF r.value # EmptyDict THEN ""
                                     ELSE "no_sites",
                          !.step = IF r.raised = "none" /\ r.value # EmptyDict
                                   THEN "sites" ELSE "user"]
    /\ UNCHANGED <<pc, coordVars, respVars, sdwanVars, ispVars, requests, last,
                   got404, faults, cycles, replay, sensor, hass>>

\* async_step_sites with the form's input: the entry is created.
AsyncStepSites ==
    /\ flow.handler = "config"
    /\ flow.step = "sites"
    /\ \E selected_sites \in SUBSET SubmittableSites :
           /\ hass' = [hass EXCEPT
                          !.entry = [entry_id |-> "entry1",
                                     api_key |-> flow.api_key,
                                     sites |-> SelectedSitesDict(selected_sites, flow.sites),
                                     state |-> "loaded"]]
           /\ flow' = [flow EXCEPT !.handler = "none", !.step = "none",
                                   !.selected = selected_sites]
    /\ UNCHANGED <<pc, coordVars, respVars, sdwanVars, ispVars, requests, last,
                   got404, faults, cycles, replay, sensor>>

\* An options flow is opened on the entry: OptionsFlowHandler.__init__ and
\* async_step_init without input, which discovers the sites and shows the
\* form, with the error cannot_connect when the discovery raised.
OptionsStepInit ==
    /\ hass.entry # None
    /\ flow.handler = "none"
    /\ flow.opened < MaxOptionsFlows
    /\ \E sites_kind \in FlowKinds, hosts_kind \in FlowKinds :
           LET r == OptionsFetchSitesAndDevices(EmptyDict, sites_kind, hosts_kind)
           IN flow' = [flow EXCEPT
                          !.handler = "options",
                          !.step = "init",
                          !.api_key = hass.entry.api_key,
                          !.opened = @ + 1,
                          !.answers = r.asked,
                          !.sites = r.value,
                          !.found = IF r.raised = "none" THEN r.value ELSE EmptyDict,
                          !.errors = IF r.raised # "none" THEN "cannot_connect" ELSE "",
                          !.selected = {}]
    /\ UNCHANGED <<pc, coordVars, respVars, sdwanVars, ispVars, requests, last,
                   got404, faults, cycles, replay, sensor, hass>>

\* async_step_init with the form's input.  The form shown after a failed
\* discovery has no field, so its input selects nothing.
OptionsStepInitSubmit ==
    /\ flow.handler = "options"
    /\ flow.step = "init"
    /\ \E selected_sites \in
           (IF flow.errors = "" THEN SUBSET SubmittableSites ELSE {{}}) :
           LET current_sites == hass.entry.sites
               new_sites == SelectedSitesDict(selected_sites, flow.sites)
           IN /\ hass' = IF new_sites # current_sites
                         THEN [hass EXCEPT !.entry.sites = new_sites,
                                           !.reloads = @ + 1]
                         ELSE hass
              /\ flow' = [flow EXCEPT !.handler = "none", !.step = "none",
                                      !.selected = selected_sites]
    /\ UNCHANGED <<pc, coordVars, respVars, sdwanVars, ispVars, requests, last,
                   got404, faults, cycles, replay, sensor>>

\* No entry yet, no flow in progress; the coordinator is not constructed
\* before an entry is set up.
InitFlow ==
    /\ InitCoordinator
    /\ replay = NoReplay
    /\ sensor = NoSensor
    /\ hass = NoHass
    /\ flow = NoFlow

NextFlow ==
    \/ ConfigFlowInit
    \/ AsyncStepUser
    \/ AsyncStepSites
    \/ OptionsStepInit
    \/ OptionsStepInitSubmit

SpecFlow == InitFlow /\ [][NextFlow]_vars

(***************************************************************************)
(* C26: the config flow creates an entry only in the sites step, and the   *)
(* sites step is entered only by a submission of the user step whose       *)
(* discovery, made with the key just entered, found at least one site.     *)
(* The entry stores that key and, as its sites, exactly the selected ids   *)
(* that were discovered, each with its discovered name.                    *)
(***************************************************************************)
C26_EntryOnlyFromSitesStep ==
    [][ /\ (flow'.step = "sites" /\ flow.step # "sites")
            => /\ flow.handler = "config"
               /\ flow.step = "user"
               /\ flow'.attempts = flow.attempts + 1
               /\ flow'.found # EmptyDict
               /\ flow'.sites = flow'.found
               /\ hass'.entry = None
        /\ (hass.entry = None /\ hass'.entry # None)
            => /\ flow.handler = "config"
               /\ flow.step = "sites"
               /\ flow.found # EmptyDict
               /\ hass'.entry.api_key = flow.api_key
               /\ DOMAIN hass'.entry.sites = flow'.selected \cap DOMAIN flow.found
               /\ \A site_id \in DOMAIN hass'.entry.sites :
                      hass'.entry.sites[site_id] = flow.found[site_id]
      ]_vars

\* An entry created after a failed first submission, from a selection that
\* held a discovered site and one that was not discovered.
C26_Witness ==
    /\ hass.entry # None
    /\ flow.opened = 0
    /\ flow.attempts = 2
    /\ "Z" \in flow.selected
    /\ DOMAIN hass.entry.sites = {"A"}
    /\ hass.entry.api_key = "k2"

(***************************************************************************)
(* C27: in the user step of the config flow a 401 from a request gives the *)
(* form error invalid_auth, and a transport failure (another non-2xx       *)
(* status, a connection error, a timeout) gives cannot_connect; either way *)
(* the user form is shown again and no entry is created.                   *)
(***************************************************************************)
C27_TransportFailureIsCannotConnect ==
    [][ (flow.handler = "config" /\ flow.step = "user"
         /\ flow'.attempts = flow.attempts + 1)
            => LET failed == flow'.answers[Len(flow'.answers)]
               IN /\ failed = "401"
                      => /\ flow'.errors = "invalid_auth"
                         /\ flow'.step = "user"
                         /\ hass'.entry = None
                  /\ failed \in {"500", "neterr", "timeout"}
                      => /\ flow'.errors = "cannot_connect"
                         /\ flow'.step = "user"
                         /\ hass'.entry = None
      ]_vars

(***************************************************************************)
(* C28: submitting the options form changes the entry's sites only to the  *)
(* selected ones among those discovered when the form was shown, and when  *)
(* the form was shown with cannot_connect it leaves the entry's sites      *)
(* unchanged and reloads nothing.                                          *)
(***************************************************************************)
C28_FailedDiscoveryKeepsSelection ==
    [][ (flow.handler = "options" /\ flow'.handler = "none")
            => /\ hass'.entry.sites # hass.entry.sites
                   => /\ DOMAIN hass'.entry.sites = flow'.selected \cap DOMAIN flow.found
                      /\ \A site_id \in DOMAIN hass'.entry.sites :
                             hass'.entry.sites[site_id] = flow.found[site_id]
               /\ flow.errors = "cannot_connect"
                   => /\ hass'.entry.sites = hass.entry.sites
                      /\ hass'.reloads = hass.reloads
      ]_vars

(***************************************************************************)
(* Reading the attributes of the ISP-metrics entity from the snapshots a   *)
(* cycle returns, for series in which the backend left fields out of the   *)
(* wan block of a period.                                                  *)
(***************************************************************************)
\* The wan block of a period: complete, without one of its fields, empty.
WanBlocks ==
    LET full == Wan("10", 1)
    IN << full,
          Restrict(full, DOMAIN full \ {"download_kbps"}),
          Restrict(full, DOMAIN full \ {"upload_kbps"}),
          Restrict(full, DOMAIN full \ {"packetLoss"}),
          Restrict(full, DOMAIN full \ {"avgLatency"}),
          Restrict(full, {"ispName", "uptime"}),
          EmptyDict >>

\* The raw series: one entry of site A with a period at T1 and one at T2,
\* with the wan blocks number w1 and w2; no entry at all for w1 = 0.
AttributeSeries(w1, w2) ==
    IF w1 = 0 THEN << >>
    ELSE << [siteId |-> "A", hostId |-> "H1", metricType |-> "5m",
             periods |-> << [metricTime |-> T1, data |-> [wan |-> WanBlocks[w1]]],
                            [metricTime |-> T2, data |-> [wan |-> WanBlocks[w2]]] >>] >>

\* isp_metrics as the cycle builds it for the sites A and B when every
\* metrics request is answered with `series`.
IspMetricsOf(series) ==
    LET resp == [transport |-> TRUE, status |-> 200, json |-> TRUE,
                 body |-> [data |-> series]]
    IN [site_id \in {"A", "B"} |->
          [key \in Range(MetricKeys) |->
             LET metric_type == CHOOSE m \in Range(MetricTypes) : KeyOf(m) = key
             IN FetchIspMetrics(resp, metric_type, site_id)]]

\* The snapshot of a cycle over the sites A and B whose metrics requests
\* were answered with the series of w1 and w2.
AttributeSnapshot(w1, w2) ==
    Snapshot([data |-> SetupHosts], [data |-> << SetupSites[1], SetupSites[3] >>],
             [data |-> SetupDevices], IspMetricsOf(AttributeSeries(w1, w2)),
             << >>, EmptyDict)

\* Home Assistant reads extra_state_attributes of the ISP-metrics entity of
\* a site.
ReadExtraStateAttributes ==
    /\ pc = "done"
    /\ \E site_id \in {"A", "B", "C"} :
           sensor' = [sensor EXCEPT
                         !.attributes = [site_id |-> site_id,
                                         value |-> ExtraStateAttributes(data, site_id)]]
    /\ UNCHANGED <<pc, coordVars, respVars, sdwanVars, ispVars, requests, last,
                   got404, faults, cycles, replay, hass, flow>>

\* A cycle has returned a snapshot.
InitAttributes ==
    /\ pc = "done"
    /\ \/ data = EmptyDict
       \/ \E w1 \in 0..Len(WanBlocks), w2 \in DOMAIN WanBlocks :
              data = AttributeSnapshot(w1, w2)
    /\ last_update_success = TRUE
    /\ outcome = "success"
    /\ sites_response = None
    /\ hosts_response = None
    /\ devices_response = None
    /\ sdwan_configs_response = None
    /\ sdwan_configs = << >>
    /\ sdwan_statuses = EmptyDict
    /\ i = 0
    /\ config_id = ""
    /\ isp_metrics = EmptyDict
    /\ si = 0
    /\ k = 0
    /\ metrics = EmptyDict
    /\ requests = << >>
    /\ last = [req |-> NoReq, kind |-> "-"]
    /\ got404 = {}
    /\ faults = 0
    /\ cycles = 1
    /\ replay = NoReplay
    /\ sensor = NoSensor
    /\ hass = NoHass
    /\ flow = NoFlow

NextAttributes == ReadExtraStateAttributes

SpecAttributes == InitAttributes /\ [][NextAttributes]_vars

(***************************************************************************)
(* C29: for every snapshot a cycle can return, the empty one, one with     *)
(* empty metric slots and one whose samples hold None for fields the       *)
(* backend left out, reading the attributes of the ISP-metrics entity      *)
(* returns the attributes and raises nothing.                              *)
(***************************************************************************)
C29_AttributesNeverRaise ==
    sensor.attributes # None => "raised" \notin DOMAIN sensor.attributes.value

(***************************************************************************)
(* Termination of a cycle.  A step of a running cycle is the arrival of    *)
(* the answer it awaits, or the entry into the loop over the sites.  Each  *)
(* request is answered or fails in the end, a timeout being a failure:     *)
(* weak fairness of the steps of the cycle.  Nothing is assumed of the     *)
(* scheduler that starts the cycles.  The fairness of IspResponse is       *)
(* written out, WF_vars(A) being []<>~ENABLED <<A>>_vars \/ []<><<A>>_vars, *)
(* with the condition under which an answer to a metrics request can       *)
(* arrive, pc = "isp", in the place of ENABLED.                            *)
(***************************************************************************)
\* How many cycles the scheduler starts where termination is checked.
MaxLiveCycles == 1

CycleStep ==
    \/ SitesResponse
    \/ HostsResponse
    \/ DevicesResponse
    \/ SdwanResponse
    \/ DetailResponse
    \/ StatusResponse
    \/ IspLoop
    \/ IspResponse

NextLive ==
    \/ cycles < MaxLiveCycles /\ StartCycle
    \/ CycleStep

FairCycle ==
    /\ WF_vars(SitesResponse)
    /\ WF_vars(HostsResponse)
    /\ WF_vars(DevicesResponse)
    /\ WF_vars(SdwanResponse)
    /\ WF_vars(DetailResponse)
    /\ WF_vars(StatusResponse)
    /\ WF_vars(IspLoop)
    /\ ([]<>(pc # "isp") \/ []<><<IspResponse>>_vars)

SpecLive == Init /\ [][NextLive]_vars /\ FairCycle

\* The outcomes a cycle ends with: the snapshot returned, UpdateFailed,
\* ConfigEntryAuthFailed.
FinalOutcomes == {"success", "UpdateFailed", "ConfigEntryAuthFailed"}

(***************************************************************************)
(* C30: every cycle terminates.  Provided each request is answered or      *)
(* fails, a started cycle reaches one of its final outcomes.               *)
(***************************************************************************)
C30_CycleTerminates ==
    (pc \notin {"idle", "done"}) ~> (pc = "done" /\ outcome \in FinalOutcomes)

\* A cycle that went through the SD-WAN configs and the sites' metrics with
\* two failed requests on its way has returned its snapshot.
C30_Witness ==
    /\ pc = "done"
    /\ outcome = "success"
    /\ faults = 2
    /\ \E j \in DOMAIN requests : requests[j].path = IspMetricsPath
    /\ \E j \in DOMAIN requests : requests[j].path = SdwanStatusPath

=============================================================================
